---- MODULE Spec2Model ----
(***************************************************************************)
(* Model of the SPICE driver (src/mlreco/manager.py): the iteration loop   *)
(* of SPICEManager.run with its checkpoint cadence, and the weight loader  *)
(* SPICEManager.load_weights with its path checks and key matching.        *)
(*                                                                         *)
(* Numbers that the code computes in floating point (iter_per_epoch,       *)
(* epochs) are kept as exact fractions; within the bounds used here the    *)
(* double-precision results of the code round to the same integers.        *)
(***************************************************************************)
EXTENDS Integers, Sequences, FiniteSets, TLC

VARIABLES
    cfg,            \* the configuration stored by process_main / process_io
    procs,          \* ranks of the processes that are running
    pc,             \* per rank: position in run()
    epoch,          \* per rank: the loop variable e of run()
    num_epochs,     \* per rank: num_epochs of run()
    n_left,         \* per rank: iterations left in the inner loop
    iteration,      \* per rank: the iteration counter of run()
    executed,       \* per rank: iteration indices passed to train_step, in order
    epoch_iters,    \* per rank: number of iterations run by each epoch so far
    ckpt_writes,    \* the checkpoint files written to disk, with their writer
    seeds,          \* per rank: the values passed to sampler.set_epoch, in order
    lw,             \* the weight loader: state of one SPICEManager.load_weights
    fz,             \* the weight freezer: state of SPICEManager.freeze_weights
    sp,             \* one call of SPICEManager.step: its output and outcome
    ph,             \* per rank: the phases of the iteration loop, as they run
    sink,           \* the calls of writer.append and the objects gathered
    ag,             \* one key of write(): the values gathered and merged
    su,             \* the set-up of a run: process_world, then __init__
    mt,             \* the matcher: its construction and one entry processed
    lg              \* per rank: write() and log() step by step, and stdout

vars == <<cfg, procs, pc, epoch, num_epochs, n_left, iteration, executed,
          epoch_iters, ckpt_writes, seeds, lw, fz, sp, ph, sink, ag, su, mt,
          lg>>

\* The variables of the machines other than run() and load_weights().
auxVars == <<fz, sp, ph, sink, ag, su, mt, lg>>

runVars == <<cfg, procs, pc, epoch, num_epochs, n_left, iteration, executed,
             epoch_iters, ckpt_writes, seeds>>

----------------------------------------------------------------------------
(* Bounds of the model.                                                    *)

MaxLoader == 3
MaxWorld == 2
MaxIter == 4
MaxStep == 2
MaxStart == 1
MaxSaved == 1
MaxGlob == 2
DistMaxLoader == 2
DistMaxIter == 2

----------------------------------------------------------------------------
(* Arithmetic of the host language.                                        *)

\* Python's a % b for b # 0: the result has the sign of the divisor.
PyMod(a, b) == IF b > 0 THEN a % b ELSE -((-a) % (-b))

\* Python's min(a, b).
PyMin(a, b) == IF b < a THEN b ELSE a

\* int(np.ceil(num / den)) for den > 0.
CeilDiv(num, den) == -((-num) \div den)

\* Python's range(n): the number of values it yields.
RangeLen(n) == IF n > 0 THEN n ELSE 0

----------------------------------------------------------------------------
(* Configuration: process_main and process_io.                             *)

\* Variant: every rank takes itself for the main process.
MainProcessAny(rank) == TRUE

\* self.main_process = rank == 0
MainProcess(rank) == rank = 0

\* The epochs derived from `iterations` in process_io, as the fraction
\* <<numerator, denominator>>: 1 when iterations < 0, and otherwise
\* iterations / iter_per_epoch with iter_per_epoch = len(loader) / world_size.
DerivedEpochs(iterations, loader_len, world_size) ==
    IF iterations < 0
    THEN <<1, 1>>
    ELSE <<iterations * world_size, loader_len>>

\* The configuration after process_main and process_io.
ProcessConfig(loader_len, world_size, iterations, checkpoint_step, train, start) ==
    [loader_len      |-> loader_len,
     world_size      |-> world_size,
     distributed     |-> world_size > 1,
     iterations      |-> iterations,
     epochs          |-> DerivedEpochs(iterations, loader_len, world_size),
     checkpoint_step |-> checkpoint_step,
     train           |-> train,
     weight_prefix   |-> "weights/snapshot",
     start_iteration |-> start]

----------------------------------------------------------------------------
(* run(): the epoch loop and the iteration loop.                           *)

\* num_epochs = int(np.ceil(self.epochs - iteration / iter_per_epoch))
NumEpochs(c, it) ==
    CeilDiv(c.epochs[1] * c.loader_len - it * c.world_size * c.epochs[2],
            c.epochs[2] * c.loader_len)

\* n_iterations = min(self.iterations - e*len(self.loader), len(self.loader))
NIterations(c, e) == PyMin(c.iterations - e * c.loader_len, c.loader_len)

\* Variant: the cadence tested on the iteration index itself.
SaveStepOffByOne(it, checkpoint_step) == PyMod(it, checkpoint_step) = 0

\* save_step = ((iteration + 1) % self.checkpoint_step) == 0
SaveStep(it, checkpoint_step) == PyMod(it + 1, checkpoint_step) = 0

\* filename = f'{self.weight_prefix}-{iteration:d}.ckpt'
CkptFile(weight_prefix, it) == <<weight_prefix, "-", it, ".ckpt">>

\* save_state(iteration): the file written and the record stored in it.
SaveState(weight_prefix, it, state_dict, optimizer) ==
    [file   |-> CkptFile(weight_prefix, it),
     record |-> [global_step |-> it,
                 state_dict  |-> state_dict,
                 optimizer   |-> optimizer]]

\* The model and optimizer state of a rank after its train steps so far.
ModelStateAfter(r) == <<"params", executed[r]>>

OptimStateAfter(r) == <<"optim", executed[r]>>

\* self.loader.sampler.set_epoch(e): the seed that the sampler takes.
SetEpoch(e) == e

\* Entry of run(): the starting iteration and the number of epochs.
StartRun(r) ==
    /\ pc[r] = "init"
    /\ LET it == IF cfg.train THEN cfg.start_iteration ELSE 0 IN
        /\ iteration' = [iteration EXCEPT ![r] = it]
        /\ num_epochs' = [num_epochs EXCEPT ![r] = NumEpochs(cfg, it)]
    /\ epoch' = [epoch EXCEPT ![r] = 0]
    /\ pc' = [pc EXCEPT ![r] = "epochs"]
    /\ UNCHANGED <<cfg, procs, n_left, executed, epoch_iters, ckpt_writes,
                   seeds, lw, auxVars>>

\* One pass of `for e in range(num_epochs)` up to the inner loop: the
\* sampler is re-seeded if the run is distributed, the iterator is rebuilt.
StartEpoch(r) ==
    /\ pc[r] = "epochs"
    /\ epoch[r] < num_epochs[r]
    /\ seeds' = IF cfg.distributed
                THEN [seeds EXCEPT ![r] = Append(@, SetEpoch(epoch[r]))]
                ELSE seeds
    /\ LET n == RangeLen(NIterations(cfg, epoch[r])) IN
        /\ n_left' = [n_left EXCEPT ![r] = n]
        /\ epoch_iters' = [epoch_iters EXCEPT ![r] = Append(@, 0)]
        /\ IF n > 0
           THEN /\ pc' = [pc EXCEPT ![r] = "iterations"]
                /\ epoch' = epoch
           ELSE /\ pc' = pc
                /\ epoch' = [epoch EXCEPT ![r] = @ + 1]
    /\ UNCHANGED <<cfg, procs, num_epochs, iteration, executed, ckpt_writes,
                   lw, auxVars>>

\* One pass of the inner loop: train_step, the checkpoint, the counter.
Iterate(r) ==
    /\ pc[r] = "iterations"
    /\ n_left[r] > 0
    /\ executed' = [executed EXCEPT ![r] = Append(@, iteration[r])]
    /\ IF cfg.checkpoint_step = 0
       THEN \* ZeroDivisionError raised by the modulo
            /\ pc' = [pc EXCEPT ![r] = "failed"]
            /\ UNCHANGED <<epoch, n_left, iteration, epoch_iters, ckpt_writes>>
       ELSE /\ ckpt_writes' =
                  IF /\ cfg.train
                     /\ SaveStep(iteration[r], cfg.checkpoint_step)
                     /\ MainProcess(r)
                  THEN ckpt_writes \cup
                         {[writer |-> r, at |-> iteration[r]] @@
                          SaveState(cfg.weight_prefix, iteration[r],
                                    ModelStateAfter(r)', OptimStateAfter(r)')}
                  ELSE ckpt_writes
            /\ iteration' = [iteration EXCEPT ![r] = @ + 1]
            /\ epoch_iters' = [epoch_iters EXCEPT
                                 ![r][Len(epoch_iters[r])] = @ + 1]
            /\ n_left' = [n_left EXCEPT ![r] = @ - 1]
            /\ IF n_left[r] = 1
               THEN /\ pc' = [pc EXCEPT ![r] = "epochs"]
                    /\ epoch' = [epoch EXCEPT ![r] = @ + 1]
               ELSE /\ pc' = pc
                    /\ epoch' = epoch
    /\ UNCHANGED <<cfg, procs, num_epochs, seeds, lw, auxVars>>

\* The epoch loop is exhausted: run() returns.
EndRun(r) ==
    /\ pc[r] = "epochs"
    /\ epoch[r] >= num_epochs[r]
    /\ pc' = [pc EXCEPT ![r] = "done"]
    /\ UNCHANGED <<cfg, procs, epoch, num_epochs, n_left, iteration, executed,
                   epoch_iters, ckpt_writes, seeds, lw, auxVars>>

RunNext ==
    \/ \E r \in procs : StartRun(r)
    \/ \E r \in procs : StartEpoch(r)
    \/ \E r \in procs : Iterate(r)
    \/ \E r \in procs : EndRun(r)

\* The checkpoint cadences tried: never (-1), zero, and 1..MaxStep.
CheckpointSteps == {-1} \cup (0 .. MaxStep)

LwIdle == [pc |-> "idle"]

\* No process is in run().
RunIdle ==
    /\ cfg = ProcessConfig(1, 1, 0, 1, FALSE, 0)
    /\ procs = {}
    /\ pc = <<>>
    /\ epoch = <<>>
    /\ num_epochs = <<>>
    /\ n_left = <<>>
    /\ iteration = <<>>
    /\ executed = <<>>
    /\ epoch_iters = <<>>
    /\ ckpt_writes = {}
    /\ seeds = <<>>

\* The machines that are not under study stay where they are.
AuxIdle ==
    /\ fz = [pc |-> "idle"]
    /\ sp = [pc |-> "idle"]
    /\ ph = <<>>
    /\ sink = [pc |-> "idle"]
    /\ ag = [pc |-> "idle"]
    /\ su = [pc |-> "idle"]
    /\ mt = [pc |-> "idle"]
    /\ lg = [pc |-> "idle"]

RunInitWith(c, ps) ==
    /\ cfg = c
    /\ procs = ps
    /\ pc = [r \in ps |-> "init"]
    /\ epoch = [r \in ps |-> 0]
    /\ num_epochs = [r \in ps |-> 0]
    /\ n_left = [r \in ps |-> 0]
    /\ iteration = [r \in ps |-> 0]
    /\ executed = [r \in ps |-> <<>>]
    /\ epoch_iters = [r \in ps |-> <<>>]
    /\ ckpt_writes = {}
    /\ seeds = [r \in ps |-> <<>>]
    /\ lw = LwIdle
    /\ AuxIdle

\* One process of a world of any size, followed through a whole run.
RunInit ==
    \E L \in 1 .. MaxLoader, W \in 1 .. MaxWorld, T \in -1 .. MaxIter,
       c \in CheckpointSteps, train \in BOOLEAN, s \in 0 .. MaxStart :
        \E r \in 0 .. W - 1 :
            RunInitWith(ProcessConfig(L, W, T, c, train, s), {r})

SpecRun == RunInit /\ [][RunNext]_vars

\* All the processes of a distributed run, interleaved freely.
DistInit ==
    \E L \in 1 .. DistMaxLoader, W \in 1 .. MaxWorld, T \in 0 .. DistMaxIter,
       c \in CheckpointSteps \ {0}, train \in BOOLEAN :
        RunInitWith(ProcessConfig(L, W, T, c, train, 0), 0 .. W - 1)

SpecDist == DistInit /\ [][RunNext]_vars

----------------------------------------------------------------------------
(* Parameter names and state dictionaries.                                 *)
(*                                                                         *)
(* A name is the sequence of its pieces: the word "module", the dot, and   *)
(* one-letter words that share no letter with "module".  A substring of    *)
(* the text of a name is then exactly a sub-sequence of its pieces, so     *)
(* str.replace and the `in` test act on the pieces as they do on the text. *)

\* str.replace(old, new) on the whole name: every occurrence, left to right.
RECURSIVE ReplaceAll(_, _, _)
ReplaceAll(s, old, new) ==
    IF Len(s) < Len(old)
    THEN s
    ELSE IF SubSeq(s, 1, Len(old)) = old
         THEN new \o ReplaceAll(SubSeq(s, Len(old) + 1, Len(s)), old, new)
         ELSE <<Head(s)>> \o ReplaceAll(Tail(s), old, new)

\* `sub in s` for strings.
Contains(s, sub) ==
    \E i \in 1 .. Len(s) - Len(sub) + 1 : SubSeq(s, i, i + Len(sub) - 1) = sub

\* The leading keyword that DistributedDataParallel puts on every name.
WrapperPrefix == <<"module", ".">>

\* k.replace('module.', '')
StripWrapper(k) == ReplaceAll(k, WrapperPrefix, <<>>)

\* name.replace(f'.{module}.', f'.{model_name}.')
RemapName(name, module, model_name) ==
    ReplaceAll(name, <<".", module, ".">>, <<".", model_name, ".">>)

\* A dict is the sequence of its <<key, value>> items in insertion order; a
\* key set twice keeps its last value.
DictKeys(d) == {d[i][1] : i \in 1 .. Len(d)}

DictGet(d, k) ==
    LET last == CHOOSE i \in 1 .. Len(d) :
                    /\ d[i][1] = k
                    /\ \A j \in i + 1 .. Len(d) : d[j][1] # k
    IN d[last][2]

\* {k.replace('module.', ''):v for k, v in state_dict.items()}
StripKeys(d) == [i \in 1 .. Len(d) |-> <<StripWrapper(d[i][1]), d[i][2]>>]

\* The names of model.state_dict(): those of the bare model, each under the
\* wrapper prefix when the model is wrapped in DistributedDataParallel.
LiveName(base, distributed) ==
    IF distributed THEN WrapperPrefix \o base ELSE base

\* model.state_dict() of a model with the parameters `schema` (in order)
\* whose tensors are the ones tagged `tag`.
StateDict(schema, distributed, tag) ==
    [i \in 1 .. Len(schema) |->
        <<LiveName(schema[i], distributed), <<tag, schema[i]>>>>]

\* The parameter lists of the models considered.
NameAW == <<"a", ".", "w">>
NameBW == <<"b", ".", "w">>
NameXW == <<"x", ".", "w">>
NameAMW == <<"a", ".", "module", ".", "w">>

LiveSchemas == {<<NameAW, NameBW>>, <<NameAW, NameAMW>>}

SavedSchemas ==
    LiveSchemas \cup {<<NameAW>>, <<NameXW, NameBW>>, <<NameAMW, NameBW>>}

----------------------------------------------------------------------------
(* Weight paths and what the file system holds at them.                    *)

NoCkpt == [global_step |-> 0, state_dict |-> <<>>, optimizer |-> <<>>]

NoSaver == [schema |-> <<>>, distributed |-> FALSE, tag |-> ""]

\* No path configured ('' or None).
NoPath ==
    [path |-> <<>>, kind |-> "none", matches |-> 0,
     ckpt |-> NoCkpt, saver |-> NoSaver]

\* A literal path at which nothing exists.
MissingPath ==
    [path |-> <<"weights/none.ckpt">>, kind |-> "missing", matches |-> 0,
     ckpt |-> NoCkpt, saver |-> NoSaver]

\* A literal path to an existing directory: glob.glob returns the path.
DirectoryPath ==
    [path |-> <<"weights">>, kind |-> "directory", matches |-> 1,
     ckpt |-> NoCkpt, saver |-> NoSaver]

\* A glob pattern that n existing files match.
PatternPath(n) ==
    [path |-> <<"weights/snapshot-*.ckpt">>, kind |-> "pattern", matches |-> n,
     ckpt |-> NoCkpt, saver |-> NoSaver]

\* The file that save_state wrote at iteration k, under the prefix `tag`, for
\* a model with the parameters `schema`, wrapped or not.
SavedFile(tag, k, schema, distributed) ==
    LET saved == SaveState(tag, k, StateDict(schema, distributed, tag),
                           <<tag, "optimizer">>)
    IN [path |-> saved.file, kind |-> "file", matches |-> 1,
        ckpt |-> saved.record,
        saver |-> [schema |-> schema, distributed |-> distributed, tag |-> tag]]

SavedFiles(tag) ==
    {SavedFile(tag, k, schema, d) :
        k \in 0 .. MaxSaved, schema \in SavedSchemas, d \in BOOLEAN}

\* os.path.isfile(model_path)
IsFile(p) == p.kind = "file"

\* len(glob.glob(model_path))
GlobCount(p) == p.matches

\* The paths tried for trainval.model_path and for the modules a and b.
TopPaths ==
    {NoPath, MissingPath, DirectoryPath}
        \cup {PatternPath(n) : n \in 0 .. MaxGlob}
        \cup SavedFiles("top")

APaths == {MissingPath, PatternPath(1)} \cup SavedFiles("sub_a")

BFile == SavedFile("sub_b", 0, <<NameAW, NameBW>>, FALSE)

----------------------------------------------------------------------------
(* The module configuration tree and the list of weights to load.          *)

\* A block of the model configuration: `model_path`, `model_name` (absent
\* when has_model_name is false) and the nested blocks, in order.
Block(name, model_path, has_model_name, model_name, blocks) ==
    [name |-> name, model_path |-> model_path,
     has_model_name |-> has_model_name, model_name |-> model_name,
     blocks |-> blocks]

\* Lines 406-415: the stack walk over the configuration blocks.
RECURSIVE CollectPaths(_)
CollectPaths(module_items) ==
    IF module_items = <<>>
    THEN <<>>
    ELSE LET n    == Len(module_items)
             node == module_items[n]
             rest == SubSeq(module_items, 1, n - 1)
             here == IF node.model_path.path # <<>>
                     THEN <<[module     |-> node.name,
                             model_path |-> node.model_path,
                             model_name |-> IF node.has_model_name
                                            THEN node.model_name
                                            ELSE node.name]>>
                     ELSE <<>>
         IN here \o CollectPaths(rest \o node.blocks)

\* Lines 401-415: the general model path first, then the sub-modules.
ModelPaths(model_name, full_model_path, model_cfg) ==
    (IF full_model_path.path # <<>>
     THEN <<[module     |-> model_name,
             model_path |-> full_model_path,
             model_name |-> ""]>>
     ELSE <<>>) \o CollectPaths(model_cfg)

\* The configuration blocks of module a.
ABlocks(blocks) ==
    {Block("a", NoPath, FALSE, "", blocks)}
        \cup {Block("a", p, al, IF al THEN "x" ELSE "", blocks) :
                 p \in APaths, al \in BOOLEAN}

\* The module configurations tried: a and b side by side, b with or without
\* weights of its own, or b with weights nested in a.
ModelCfgs ==
    LET b0 == Block("b", NoPath, FALSE, "", <<>>)
        b1 == Block("b", BFile, FALSE, "", <<>>)
    IN {<<a, b0>> : a \in ABlocks(<<>>)}
         \cup {<<a, b1>> : a \in ABlocks(<<>>)}
         \cup {<<a>> : a \in ABlocks(<<b1>>)}

----------------------------------------------------------------------------
(* load_weights(): one pass of the loop per weight file.                   *)

\* The weight set the loop is at.
Entry(l) == l.model_paths[l.idx]

\* Variant: any glob pattern is skipped in inference mode, matched or not.
SkipsPathAnyPattern(train, p) == ~train /\ p.kind = "pattern"

\* Variant: a non-empty expansion is skipped in training mode too.
SkipsPathAnyMode(train, p) == GlobCount(p) > 0

\* Lines 426-428: the path is no file, and the loop moves on without it.
SkipsPath(train, p) == ~train /\ GlobCount(p) > 0

\* Lines 439-443: the stored dictionary, without the wrapper keyword when
\* the live model is not distributed.
StoredDict(l, ent) ==
    IF l.distributed
    THEN ent.model_path.ckpt.state_dict
    ELSE StripKeys(ent.model_path.ckpt.state_dict)

\* model.state_dict() names of the live model, in order.
LiveNames(l) == [i \in 1 .. Len(l.model) |-> l.model[i][1]]

\* Lines 454-456: the live names of the sub-module and the keys they are
\* stored under.
ModuleNames(l, ent) ==
    SelectSeq(LiveNames(l), LAMBDA name : Contains(name, <<ent.module>>))

StoredKey(ent, name) == RemapName(name, ent.module, ent.model_name)

\* Lines 445-461: the (name, key) pairs that the checkpoint does not give.
MissingKeys(l, ent) ==
    IF ent.module = l.model_name
    THEN SelectSeq([i \in 1 .. Len(l.model) |-> <<l.model[i][1], l.model[i][1]>>],
                   LAMBDA nk : nk[1] \notin DictKeys(StoredDict(l, ent)))
    ELSE SelectSeq([i \in 1 .. Len(ModuleNames(l, ent)) |->
                       <<ModuleNames(l, ent)[i],
                         StoredKey(ent, ModuleNames(l, ent)[i])>>],
                   LAMBDA nk : nk[2] \notin
                                   DictKeys(ent.model_path.ckpt.state_dict))

\* Lines 447-461: the dictionary handed to load_state_dict.
DictToLoad(l, ent) ==
    IF ent.module = l.model_name
    THEN StoredDict(l, ent)
    ELSE LET given == SelectSeq(ModuleNames(l, ent),
                          LAMBDA name : StoredKey(ent, name) \in
                                   DictKeys(ent.model_path.ckpt.state_dict))
         IN [i \in 1 .. Len(given) |->
                <<given[i],
                  DictGet(ent.model_path.ckpt.state_dict,
                          StoredKey(ent, given[i]))>>]

\* model.load_state_dict(state_dict, strict=False)
LoadStateDict(model, state_dict) ==
    [i \in 1 .. Len(model) |->
        IF model[i][1] \in DictKeys(state_dict)
        THEN <<model[i][1], DictGet(state_dict, model[i][1])>>
        ELSE model[i]]

\* The end of one pass: the next weight set, or the return.
NextEntry(l) ==
    [l EXCEPT !.idx = @ + 1,
              !.pc = IF l.idx + 1 > Len(l.model_paths) THEN "done" ELSE "loop"]

\* Variant: the parameters found are loaded before the raise.
RaiseMissingAfterLoad(l, ent) ==
    [l EXCEPT !.pc = "failed", !.error = "missing_keys",
              !.model = LoadStateDict(l.model, DictToLoad(l, ent))]

\* Lines 463-471: the raise on missing parameters.
RaiseMissing(l, ent) == [l EXCEPT !.pc = "failed", !.error = "missing_keys"]

\* Lines 489-491: the iteration to start from after loading `ent`.
StartIterationAfter(l, ent) ==
    IF ent.module = l.model_name
    THEN ent.model_path.ckpt.global_step + 1
    ELSE l.start_iteration

\* Lines 473-491: the checkpoint is loaded into the live objects.
ApplyCheckpoint(l, ent) ==
    [NextEntry(l) EXCEPT
        !.model = LoadStateDict(l.model, DictToLoad(l, ent)),
        !.optimizer = IF /\ l.train
                         /\ ent.module = l.model_name
                         /\ l.restore_optimizer
                      THEN ent.model_path.ckpt.optimizer
                      ELSE l.optimizer,
        !.start_iteration = StartIterationAfter(l, ent)]

\* Lines 401-420: the list of weights, start_iteration = 0, the early return.
LoadBegin ==
    /\ lw.pc = "init"
    /\ LET paths == ModelPaths(lw.model_name, lw.full_model_path, lw.model_cfg)
       IN lw' = [lw EXCEPT !.model_paths = paths,
                           !.start_iteration = 0,
                           !.idx = 1,
                           !.pc = IF paths = <<>> THEN "done" ELSE "loop"]
    /\ UNCHANGED <<runVars, auxVars>>

\* Lines 426-428: `continue`.
LoadSkip ==
    /\ lw.pc = "loop"
    /\ ~IsFile(Entry(lw).model_path)
    /\ SkipsPath(lw.train, Entry(lw).model_path)
    /\ lw' = NextEntry(lw)
    /\ UNCHANGED <<runVars, auxVars>>

\* Lines 430-431: "Weight file not found".
LoadNotFound ==
    /\ lw.pc = "loop"
    /\ ~IsFile(Entry(lw).model_path)
    /\ ~SkipsPath(lw.train, Entry(lw).model_path)
    /\ lw' = [lw EXCEPT !.pc = "failed", !.error = "not_found"]
    /\ UNCHANGED <<runVars, auxVars>>

\* Lines 463-471: "a set of weights must provide all necessary parameters".
LoadMissing ==
    /\ lw.pc = "loop"
    /\ IsFile(Entry(lw).model_path)
    /\ MissingKeys(lw, Entry(lw)) # <<>>
    /\ lw' = RaiseMissing(lw, Entry(lw))
    /\ UNCHANGED <<runVars, auxVars>>

\* Lines 473-493: the weights, the optimizer, the start iteration.
LoadApply ==
    /\ lw.pc = "loop"
    /\ IsFile(Entry(lw).model_path)
    /\ MissingKeys(lw, Entry(lw)) = <<>>
    /\ lw' = ApplyCheckpoint(lw, Entry(lw))
    /\ UNCHANGED <<runVars, auxVars>>

LoadNext ==
    \/ LoadBegin
    \/ LoadSkip
    \/ LoadNotFound
    \/ LoadMissing
    \/ LoadApply

\* The names the top-level model may carry; "a" is also a module name.
ModelNames == {"full", "a"}

\* The manager as initialize() has built it, before load_weights: a fresh
\* model and optimizer.
LoadInit ==
    /\ \E distributed \in BOOLEAN, train \in BOOLEAN, restore \in BOOLEAN,
          name \in ModelNames, schema \in LiveSchemas,
          top \in TopPaths, modules \in ModelCfgs :
        /\ restore => train
        /\ lw = [pc                |-> "init",
                 train             |-> train,
                 distributed       |-> distributed,
                 restore_optimizer |-> restore,
                 model_name        |-> name,
                 schema            |-> schema,
                 full_model_path   |-> top,
                 model_cfg         |-> modules,
                 model_paths       |-> <<>>,
                 idx               |-> 0,
                 model             |-> StateDict(schema, distributed, "init"),
                 optimizer         |-> <<"init", "optimizer">>,
                 start_iteration   |-> -1,
                 error             |-> ""]
    /\ cfg = ProcessConfig(1, 1, 0, 1, lw.train, 0)
    /\ procs = {}
    /\ pc = <<>>
    /\ epoch = <<>>
    /\ num_epochs = <<>>
    /\ n_left = <<>>
    /\ iteration = <<>>
    /\ executed = <<>>
    /\ epoch_iters = <<>>
    /\ ckpt_writes = {}
    /\ seeds = <<>>
    /\ AuxIdle

SpecLoad == LoadInit /\ [][LoadNext]_vars

----------------------------------------------------------------------------
(* Properties of run().                                                    *)

\* The run of rank r starts at iteration 0.
StartsAtZero == cfg.train => cfg.start_iteration = 0

\* The indices 0, 1, ..., n-1 in increasing order.
UpTo(n) == [i \in 1 .. n |-> i - 1]

\* Every epoch of rank r but the last one ran len(loader) iterations.
OnlyFinalEpochShort(r) ==
    \A k \in 1 .. Len(epoch_iters[r]) - 1 :
        epoch_iters[r][k] = cfg.loader_len

\* C1: from iteration 0 with a budget of T >= 0 iterations, a finished run
\* has executed exactly the iterations 0 .. T-1, each once and in increasing
\* order, and only its final epoch ran fewer iterations than a full epoch.
C1_ExactBudgetFullEpochs ==
    \A r \in procs :
        (pc[r] = "done" /\ cfg.iterations >= 0 /\ StartsAtZero) =>
            /\ executed[r] = UpTo(cfg.iterations)
            /\ OnlyFinalEpochShort(r)

\* C2: with a negative `iterations` the derived number of epochs is 1 and a
\* finished run has executed exactly len(loader) / world_size iterations.
C2_NegativeRunsOneEpoch ==
    \A r \in procs :
        (pc[r] = "done" /\ cfg.iterations < 0 /\ StartsAtZero) =>
            /\ cfg.epochs = <<1, 1>>
            /\ Len(executed[r]) * cfg.world_size = cfg.loader_len

\* Rank r wrote a checkpoint during its iteration i.
SavedDuring(r, i) == \E w \in ckpt_writes : w.writer = r /\ w.at = i

\* C3: in train mode with a cadence c > 0, a checkpoint is saved during
\* iteration i exactly when (i+1) mod c = 0 on rank 0; the record carries
\* iteration i and goes to the file `{prefix}-{i}.ckpt`.
C3_CheckpointCadence ==
    (cfg.train /\ cfg.checkpoint_step > 0) =>
        /\ \A r \in procs : \A k \in 1 .. Len(executed[r]) :
             LET i == executed[r][k] IN
                 SavedDuring(r, i) <=>
                     ((i + 1) % cfg.checkpoint_step = 0 /\ r = 0)
        /\ \A w \in ckpt_writes :
             /\ \E k \in 1 .. Len(executed[w.writer]) :
                    executed[w.writer][k] = w.at
             /\ w.record.global_step = w.at
             /\ w.file = <<cfg.weight_prefix, "-", w.at, ".ckpt">>

\* Rank 0 has run an iteration that saved and one that did not.
C3_Witness ==
    /\ cfg.train
    /\ cfg.checkpoint_step = 2
    /\ 0 \in procs
    /\ Len(executed[0]) >= 2
    /\ SavedDuring(0, 1)
    /\ ~SavedDuring(0, 0)

\* C4: with checkpoint_step = -1 no checkpoint is ever saved.
C4_NeverCheckpoint == cfg.checkpoint_step = -1 => ckpt_writes = {}

\* C5: no rank other than 0 ever writes a checkpoint file, and no file is
\* written by two different ranks.
C5_SingleWriter ==
    /\ \A w \in ckpt_writes : w.writer = 0
    /\ \A w1, w2 \in ckpt_writes : w1.file = w2.file => w1.writer = w2.writer

\* Every rank of a distributed training run went through an iteration that
\* meets the cadence, and the checkpoint of that iteration is on disk.
C5_Witness ==
    /\ cfg.world_size > 1
    /\ cfg.train
    /\ cfg.checkpoint_step = 1
    /\ \A r \in procs : Len(executed[r]) >= 1
    /\ ckpt_writes # {}

----------------------------------------------------------------------------
(* Properties of load_weights().                                           *)

\* load_weights has returned or raised.
LoadOver == lw.pc \in {"done", "failed"}

\* The only weights configured are a file saved by a model with the same
\* parameters and the same distributed setting as the live one.
RoundTripCase ==
    /\ IsFile(lw.full_model_path)
    /\ lw.full_model_path.saver.schema = lw.schema
    /\ lw.full_model_path.saver.distributed = lw.distributed
    /\ Len(lw.model_paths) = 1

\* C6: saving at iteration k and loading that file as the top-level
\* checkpoint, in the same distributed setting, gives a live model equal
\* entry by entry to the saved state, and start_iteration = k + 1.
C6_RoundTrip ==
    (LoadOver /\ RoundTripCase) =>
        /\ lw.pc = "done"
        /\ \A i \in 1 .. Len(lw.model) :
               lw.model[i] =
                   StateDict(lw.schema, lw.distributed, "top")[i]
        /\ lw.start_iteration = lw.full_model_path.ckpt.global_step + 1

\* The live parameters that the weight set `ent` must give.
Required(l, ent) ==
    {l.model[i][1] : i \in
        {j \in 1 .. Len(l.model) :
            \/ ent.module = l.model_name
            \/ Contains(l.model[j][1], <<ent.module>>)}}

\* The checkpoint of `ent` holds the parameter `name`, after the prefix is
\* stripped (top-level) or the name is remapped to its alias (sub-module).
Provides(l, ent, name) ==
    IF ent.module = l.model_name
    THEN name \in DictKeys(StoredDict(l, ent))
    ELSE StoredKey(ent, name) \in DictKeys(ent.model_path.ckpt.state_dict)

C8_StartIteration ==
    lw.pc = "done" =>
        lw.start_iteration =
            IF IsFile(lw.full_model_path)
            THEN lw.full_model_path.ckpt.global_step + 1
            ELSE 0

\* The loop is at a weight path that is not an existing file.
AtNonFile == lw.pc = "loop" /\ ~IsFile(Entry(lw).model_path)

\* This pass of the loop skips its weight set: no error, nothing loaded.
Skipped ==
    /\ lw'.pc # "failed"
    /\ lw'.idx = lw.idx + 1
    /\ lw'.model = lw.model
    /\ lw'.optimizer = lw.optimizer

\* This pass of the loop ends in the "Weight file not found" error.
NotFound == lw'.pc = "failed" /\ lw'.error = "not_found"

C10_ZeroGlobTolerated ==
    [][(AtNonFile /\ ~lw.train /\ GlobCount(Entry(lw).model_path) = 0) =>
          IF Entry(lw).model_path.kind = "pattern"
          THEN Skipped
          ELSE NotFound]_vars

\* C10, amended: in inference mode a glob pattern expanding to zero files
\* is fatal, like a literal path to a missing file.
C10_ZeroGlobFatal ==
    [][(AtNonFile /\ ~lw.train /\ GlobCount(Entry(lw).model_path) = 0) =>
          (NotFound /\ lw'.model = lw.model)]_vars

\* Inference mode stopped on a glob pattern that no file matches.
C10_Witness ==
    /\ lw.pc = "failed"
    /\ lw.error = "not_found"
    /\ ~lw.train
    /\ Entry(lw).model_path.kind = "pattern"
    /\ Entry(lw).model_path.matches = 0

\* The key with its leading wrapper prefix removed, the rest of it as it is.
LeadingStripped(k) ==
    IF Len(k) >= 2 /\ SubSeq(k, 1, 2) = WrapperPrefix
    THEN SubSeq(k, 3, Len(k))
    ELSE k

\* The stored dictionary as the live names are to be matched against it: the
\* leading prefix off every key when the live model is not distributed, the
\* stored keys themselves when it is.
MatchedDict(l, ent) ==
    LET d == ent.model_path.ckpt.state_dict IN
    IF l.distributed
    THEN d
    ELSE [i \in 1 .. Len(d) |-> <<LeadingStripped(d[i][1]), d[i][2]>>]

\* The key under which the live parameter `name` is looked up.
LookupKey(l, ent, name) ==
    IF ent.module = l.model_name THEN name ELSE StoredKey(ent, name)

\* The value that the live parameter `name` holds in the model `model`.
LiveValue(model, name) == DictGet(model, name)

\* C11: in a pass over a weight file, the live names are matched against the
\* stored keys with the leading `module.` removed and nothing else altered
\* when the live model is not distributed, and against the stored keys
\* unchanged when it is, for top-level and sub-module loads alike: the pass
\* fails when a required name finds no such key, and otherwise gives every
\* required name the value stored under its key.
C11_LeadingPrefixOnly ==
    [][(lw.pc = "loop" /\ IsFile(Entry(lw).model_path)) =>
          LET ent  == Entry(lw)
              d    == MatchedDict(lw, ent)
              gaps == {n \in Required(lw, ent) :
                          LookupKey(lw, ent, n) \notin DictKeys(d)}
          IN IF gaps # {}
             THEN lw'.pc = "failed"
             ELSE /\ lw'.pc # "failed"
                  /\ \A n \in Required(lw, ent) :
                         LiveValue(lw'.model, n) =
                             DictGet(d, LookupKey(lw, ent, n))]_vars

----------------------------------------------------------------------------
(* Sub-module loads into a model with a module named "ba" next to "a".     *)

\* The parameter w of a module whose name, "ba", ends in the name of a.
NameBAW == <<"b", "a", ".", "w">>

SubLiveSchemas == {<<NameAW, NameBAW>>, <<NameAW, NameBW>>}

SubSavedSchemas ==
    SubLiveSchemas \cup {<<NameAW>>, <<NameXW>>, <<NameXW, NameBAW>>}

\* The weight paths tried for the module a.
SubPaths ==
    {MissingPath, PatternPath(1)}
        \cup {SavedFile("sub_a", 0, schema, d) :
                 schema \in SubSavedSchemas, d \in BOOLEAN}

\* Module a with weights of its own, aliased or not; no general weights, or
\* the general weights of the same model.
SubInit ==
    /\ \E distributed \in BOOLEAN, train \in BOOLEAN,
          schema \in SubLiveSchemas, p \in SubPaths, al \in BOOLEAN,
          top \in BOOLEAN :
        lw = [pc                |-> "init",
              train             |-> train,
              distributed       |-> distributed,
              restore_optimizer |-> FALSE,
              model_name        |-> "full",
              schema            |-> schema,
              full_model_path   |-> IF top
                                    THEN SavedFile("top", 0, schema, distributed)
                                    ELSE NoPath,
              model_cfg         |-> <<Block("a", p, al,
                                            IF al THEN "x" ELSE "", <<>>)>>,
              model_paths       |-> <<>>,
              idx               |-> 0,
              model             |-> StateDict(schema, distributed, "init"),
              optimizer         |-> <<"init", "optimizer">>,
              start_iteration   |-> -1,
              error             |-> ""]
    /\ cfg = ProcessConfig(1, 1, 0, 1, lw.train, 0)
    /\ procs = {}
    /\ pc = <<>>
    /\ epoch = <<>>
    /\ num_epochs = <<>>
    /\ n_left = <<>>
    /\ iteration = <<>>
    /\ executed = <<>>
    /\ epoch_iters = <<>>
    /\ ckpt_writes = {}
    /\ seeds = <<>>
    /\ AuxIdle

SpecSub == SubInit /\ [][LoadNext]_vars

\* The parameter `name` belongs to the sub-module m: m is one of the dotted
\* segments of the name.
BelongsTo(name, m) ==
    \E i \in 1 .. Len(name) :
        /\ name[i] = m
        /\ (i = 1 \/ name[i - 1] = ".")
        /\ (i = Len(name) \/ name[i + 1] = ".")

\* The loop is at the weight file of a sub-module.
AtSubModuleFile ==
    /\ lw.pc = "loop"
    /\ IsFile(Entry(lw).model_path)
    /\ Entry(lw).module # lw.model_name

\* C12: a pass that loads the weights of the sub-module m, stored under the
\* alias a, gives every live parameter of m the checkpoint value stored
\* under its name with `.m.` replaced by `.a.`, and leaves every live
\* parameter that does not belong to m with the value it had.
C12_SubModuleSlice ==
    [][(AtSubModuleFile /\ lw'.pc # "failed") =>
          LET ent == Entry(lw) IN
          \A i \in 1 .. Len(lw.model) :
              LET name == lw.model[i][1] IN
              IF BelongsTo(name, ent.module)
              THEN lw'.model[i][2] =
                       DictGet(ent.model_path.ckpt.state_dict,
                               RemapName(name, ent.module, ent.model_name))
              ELSE lw'.model[i][2] = lw.model[i][2]]_vars

----------------------------------------------------------------------------
(* freeze_weights(): one pass of the loop per configuration block.         *)

\* The sub-modules of the bare model, by their attribute path, and its
\* parameters: a holds w and the sub-module c, b holds w, r holds nothing,
\* and ba, whose name ends with the name of a, holds w.
ModulePaths == {<<"a">>, <<"a", "c">>, <<"b">>, <<"r">>, <<"ba">>}

NameACW == <<"a", ".", "c", ".", "w">>

FreezeSchema == <<NameAW, NameACW, NameBW, NameBAW>>

\* The text of a module name, in the pieces that names are written with.
Spelled(module) == IF module = "ba" THEN <<"b", "a">> ELSE <<module>>

\* The dotted name of an attribute path, with its trailing dot.
RECURSIVE Dotted(_)
Dotted(path) ==
    IF path = <<>> THEN <<>>
    ELSE Spelled(Head(path)) \o <<".">> \o Dotted(Tail(path))

\* The parameters (bare names) held by the sub-module at `path`.
ParamsOf(path) ==
    {FreezeSchema[i] : i \in
        {j \in 1 .. Len(FreezeSchema) :
            /\ Len(FreezeSchema[j]) > Len(Dotted(path))
            /\ SubSeq(FreezeSchema[j], 1, Len(Dotted(path))) = Dotted(path)}}

\* The sub-modules at or under `path`.
SubTree(path) ==
    {q \in ModulePaths :
        Len(q) >= Len(path) /\ SubSeq(q, 1, Len(path)) = path}

\* getattr(self.model, module): self.model is the bare model, or its
\* DistributedDataParallel wrapper, whose one attribute is `module`.  The
\* result is the attribute path in the bare model, or "AttributeError".
GetAttr(distributed, module) ==
    IF distributed
    THEN IF module = "module" THEN <<>> ELSE "AttributeError"
    ELSE IF <<module>> \in ModulePaths THEN <<module>> ELSE "AttributeError"

\* A block of the model configuration, as freeze_weights reads it.
FBlock(name, freeze_weights, has_model_name, model_name, blocks) ==
    [name |-> name, freeze_weights |-> freeze_weights,
     has_model_name |-> has_model_name, model_name |-> model_name,
     blocks |-> blocks]

\* config.get('model_name', module)
AliasOf(node) == IF node.has_model_name THEN node.model_name ELSE node.name

\* Variant: only the parameters that are still trainable are counted.
FrozenTrainableOnly(f, node) ==
    LET names == [i \in 1 .. Len(FreezeSchema) |->
                     LiveName(FreezeSchema[i], f.distributed)]
    IN {FreezeSchema[i] : i \in
           {j \in 1 .. Len(FreezeSchema) :
               /\ Contains(names[j], Spelled(node.name))
               /\ RemapName(names[j], node.name, AliasOf(node)) \in
                      {names[k] : k \in 1 .. Len(names)}
               /\ f.requires_grad[FreezeSchema[j]]}}

\* Lines 367-373: the bare names of the parameters that the pass over
\* `node` sets to requires_grad = False.
Frozen(f, node) ==
    LET names == [i \in 1 .. Len(FreezeSchema) |->
                     LiveName(FreezeSchema[i], f.distributed)]
    IN {FreezeSchema[i] : i \in
           {j \in 1 .. Len(FreezeSchema) :
               /\ Contains(names[j], Spelled(node.name))
               /\ RemapName(names[j], node.name, AliasOf(node)) \in
                      {names[k] : k \in 1 .. Len(names)}}}

\* Lines 381-384: the stack after the block on top is popped and its nested
\* blocks are pushed.
PushNested(module_items) ==
    LET n == Len(module_items)
    IN SubSeq(module_items, 1, n - 1) \o module_items[n].blocks

\* The block on top of the stack.
TopItem(f) == f.module_items[Len(f.module_items)]

\* The end of a call: returned or raised.
FreezeOver(f, outcome, error) ==
    [f EXCEPT !.pc = outcome, !.error = error, !.calls = @ + 1,
              !.first = IF f.calls = 0
                        THEN [pc |-> outcome, training |-> f.training,
                              requires_grad |-> f.requires_grad]
                        ELSE f.first]

\* Line 353: the call starts; a second call starts from what the first left.
FreezeBegin ==
    /\ \/ fz.pc = "init"
       \/ fz.pc \in {"done", "failed"} /\ fz.calls = 1
    /\ fz' = [fz EXCEPT !.pc = "loop", !.error = "",
                        !.module_items = fz.model_cfg]
    /\ UNCHANGED <<runVars, lg, su, mt, lw, sp, ph, sink, ag>>

\* Lines 356-359, 381-384: a block that is not to be frozen.
FreezeVisit ==
    /\ fz.pc = "loop"
    /\ fz.module_items # <<>>
    /\ ~TopItem(fz).freeze_weights
    /\ fz' = [fz EXCEPT !.module_items = PushNested(fz.module_items)]
    /\ UNCHANGED <<runVars, lg, su, mt, lw, sp, ph, sink, ag>>

\* Line 364: the model has no attribute of the name of the block.
FreezeNoAttr ==
    /\ fz.pc = "loop"
    /\ fz.module_items # <<>>
    /\ TopItem(fz).freeze_weights
    /\ GetAttr(fz.distributed, TopItem(fz).name) = "AttributeError"
    /\ fz' = FreezeOver(fz, "failed", "AttributeError")
    /\ UNCHANGED <<runVars, lg, su, mt, lw, sp, ph, sink, ag>>

\* Lines 364-377: evaluation mode, then no weight found to freeze.
FreezeNoWeights ==
    /\ fz.pc = "loop"
    /\ fz.module_items # <<>>
    /\ TopItem(fz).freeze_weights
    /\ GetAttr(fz.distributed, TopItem(fz).name) # "AttributeError"
    /\ Frozen(fz, TopItem(fz)) = {}
    /\ LET target == GetAttr(fz.distributed, TopItem(fz).name)
           evaled == [fz EXCEPT !.training =
                         [q \in ModulePaths |->
                             IF q \in SubTree(target) THEN FALSE ELSE @[q]]]
       IN fz' = FreezeOver(evaled, "failed", "AssertionError")
    /\ UNCHANGED <<runVars, lg, su, mt, lw, sp, ph, sink, ag>>

\* Lines 364-384: evaluation mode, the weights frozen, the nested blocks.
FreezeApply ==
    /\ fz.pc = "loop"
    /\ fz.module_items # <<>>
    /\ TopItem(fz).freeze_weights
    /\ GetAttr(fz.distributed, TopItem(fz).name) # "AttributeError"
    /\ Frozen(fz, TopItem(fz)) # {}
    /\ LET target == GetAttr(fz.distributed, TopItem(fz).name)
       IN fz' = [fz EXCEPT
                    !.training =
                        [q \in ModulePaths |->
                            IF q \in SubTree(target) THEN FALSE ELSE @[q]],
                    !.requires_grad =
                        [n \in DOMAIN @ |->
                            IF n \in Frozen(fz, TopItem(fz)) THEN FALSE
                            ELSE @[n]],
                    !.module_items = PushNested(fz.module_items)]
    /\ UNCHANGED <<runVars, lg, su, mt, lw, sp, ph, sink, ag>>

\* Line 354: the stack is empty, the call returns.
FreezeEnd ==
    /\ fz.pc = "loop"
    /\ fz.module_items = <<>>
    /\ fz' = FreezeOver(fz, "done", "")
    /\ UNCHANGED <<runVars, lg, su, mt, lw, sp, ph, sink, ag>>

FreezeNext ==
    \/ FreezeBegin
    \/ FreezeVisit
    \/ FreezeNoAttr
    \/ FreezeNoWeights
    \/ FreezeApply
    \/ FreezeEnd

\* The configurations tried: the block a, aliased or not, with or without
\* the nested block c, next to a block b, r, or z (no such module).
FreezeCfgs ==
    LET nested == {<<>>} \cup {<<FBlock("c", fc, alc,
                                        IF alc THEN "y" ELSE "", <<>>)>> :
                                 fc \in BOOLEAN, alc \in BOOLEAN}
    IN {<<FBlock("a", fa, al, IF al THEN "x" ELSE "", n),
          FBlock(other, fo, FALSE, "", <<>>)>> :
           fa \in BOOLEAN, al \in BOOLEAN, n \in nested,
           other \in {"b", "r", "z"}, fo \in BOOLEAN}

\* The manager at line 332 of initialize(): the model built, wrapped when
\* distributed, set to train() or eval(), every parameter trainable.
FreezeInit ==
    /\ \E distributed \in BOOLEAN, train \in BOOLEAN, modules \in FreezeCfgs :
        fz = [pc            |-> "init",
              distributed   |-> distributed,
              train         |-> train,
              model_cfg     |-> modules,
              module_items  |-> <<>>,
              training      |-> [q \in ModulePaths |-> train],
              requires_grad |-> [n \in {FreezeSchema[i] :
                                          i \in 1 .. Len(FreezeSchema)}
                                    |-> TRUE],
              error         |-> "",
              calls         |-> 0,
              first         |-> [pc |-> "none"]]
    /\ RunIdle
    /\ lw = LwIdle
    /\ su = [pc |-> "idle"]
    /\ mt = [pc |-> "idle"]
    /\ lg = [pc |-> "idle"]
    /\ sp = [pc |-> "idle"]
    /\ ph = <<>>
    /\ sink = [pc |-> "idle"]
    /\ ag = [pc |-> "idle"]

SpecFreeze == FreezeInit /\ [][FreezeNext]_vars

\* The attribute paths of the blocks of `blocks` (under `prefix`) that have
\* freeze_weights = true, at any depth.
RECURSIVE FlaggedPaths(_, _)
FlaggedPaths(blocks, prefix) ==
    IF blocks = <<>>
    THEN {}
    ELSE LET node == Head(blocks)
             here == Append(prefix, node.name)
         IN (IF node.freeze_weights THEN {here} ELSE {})
                \cup FlaggedPaths(node.blocks, here)
                \cup FlaggedPaths(Tail(blocks), prefix)

\* The sub-module at `path` is in evaluation mode and none of its
\* parameters is trainable.
IsFrozen(path) ==
    /\ path \in ModulePaths
    /\ ~fz.training[path]
    /\ \A n \in ParamsOf(path) : ~fz.requires_grad[n]

\* The block at `path` matches no parameter of the model.
MatchesNothing(path) == path \notin ModulePaths \/ ParamsOf(path) = {}

\* C13: after freeze_weights, the live sub-module of every block with
\* freeze_weights = true, at any depth, aliased or not, distributed or not,
\* is in evaluation mode with all its parameters non-trainable; the call
\* fails only if a block to freeze matches zero parameters.
C13_FreezeAll ==
    LET flagged == FlaggedPaths(fz.model_cfg, <<>>) IN
    /\ (fz.pc = "done" /\ fz.calls = 1) =>
           \A path \in flagged : IsFrozen(path)
    /\ (fz.pc = "failed" /\ fz.calls = 1) =>
           \E path \in flagged : MatchesNothing(path)

\* C14: a second freeze_weights in succession leaves the set of
\* non-trainable parameters and the set of sub-modules in evaluation mode
\* as the first call left them, and fails if and only if the first did.
C14_FreezeIdempotent ==
    (fz.pc \in {"done", "failed"} /\ fz.calls = 2) =>
        /\ fz.requires_grad = fz.first.requires_grad
        /\ fz.training = fz.first.training
        /\ (fz.pc = "failed") <=> (fz.first.pc = "failed")

\* Two calls on a model in train mode have returned, with the parameter
\* a.w frozen and the sub-module a in evaluation mode.
C14_Witness ==
    /\ fz.pc = "done"
    /\ fz.calls = 2
    /\ fz.train
    /\ ~fz.requires_grad[NameAW]
    /\ ~fz.training[<<"a">>]
    /\ fz.training[<<"b">>]

----------------------------------------------------------------------------
(* step(): the filter and the cast of the output dictionary.               *)

\* An output value: what it is (kind), its class, and, for a tensor, its
\* number of elements; for a list, its items.
Value(kind, cls, numel, items) ==
    [kind |-> kind, cls |-> cls, numel |-> numel, items |-> items]

Scalar == Value("scalar", "float", 1, <<>>)

Tensor(numel) == Value("tensor", "Tensor", numel, <<>>)

Batch(cls) == Value("batch", cls, 0, <<>>)

ListOf(items) == Value("list", "list", 0, items)

Other == Value("other", "dict", 0, <<>>)

\* value.to_numpy() of a batch container.
ToNumpy(v) == Value("array", v.cls, 0, <<>>)

\* The batch container classes.
BatchClasses == {"TensorBatch", "IndexBatch", "EdgeIndexBatch"}

\* Lines 723-738: the value is of a type that one of the branches takes.
Castable(v) ==
    \/ v.kind = "scalar"
    \/ v.kind = "tensor" /\ v.numel = 1
    \/ v.kind = "batch" /\ v.cls \in BatchClasses
    \/ /\ v.kind = "list"
       /\ Len(v.items) > 0
       /\ v.items[1].kind = "batch"
       /\ v.items[1].cls = "TensorBatch"

\* Lines 723-738: the value that the branch stores.
Cast(v) ==
    IF v.kind = "scalar" THEN v
    ELSE IF v.kind = "tensor" THEN Scalar
    ELSE IF v.kind = "batch" THEN ToNumpy(v)
    ELSE ListOf([i \in 1 .. Len(v.items) |-> ToNumpy(v.items[i])])

\* Truth value of a list option: None and the empty list are false.
Truthy(option) == option.given /\ option.keys # {}

\* Lines 717-718: the key is not to be output.
FilteredOut(s, key) ==
    \/ Truthy(s.output_keys) /\ key \notin s.output_keys.keys
    \/ Truthy(s.ignore_keys) /\ key \in s.ignore_keys.keys

\* Positions of the output dictionary, in iteration order, with a key that
\* is filtered out; with a value that cannot be cast.
FilteredAt(s) ==
    {i \in 1 .. Len(s.result) : FilteredOut(s, s.result[i][1])}

UncastableAt(s) ==
    {i \in 1 .. Len(s.result) : ~Castable(s.result[i][2])}

\* The first position of the set `at`.
First(at) == CHOOSE i \in at : \A j \in at : i <= j

\* Lines 715-742: the loop ends and the dictionary is returned.  Without a
\* key to filter out the values are cast in place when to_numpy is set.  A
\* key that is filtered out is popped while the dictionary is iterated, and
\* set again by the cast: the loop can only end with every key in place.
StepReturn ==
    /\ sp.pc = "init"
    /\ \/ FilteredAt(sp) = {} /\ (sp.to_numpy => UncastableAt(sp) = {})
       \/ FilteredAt(sp) # {} /\ sp.to_numpy /\ UncastableAt(sp) = {}
    /\ sp' = [sp EXCEPT
                 !.pc = "returned",
                 !.out = [k \in DictKeys(sp.result) |->
                             IF sp.to_numpy
                             THEN Cast(DictGet(sp.result, k))
                             ELSE DictGet(sp.result, k)]]
    /\ UNCHANGED <<runVars, lg, su, mt, lw, fz, ph, sink, ag>>

\* Line 740: ValueError, "Cannot cast output".  The cast follows the pop of
\* a filtered key in the same pass, so the value of a filtered key is cast
\* as well.
StepCannotCast ==
    /\ sp.pc = "init"
    /\ sp.to_numpy
    /\ UncastableAt(sp) # {}
    /\ sp' = [sp EXCEPT !.pc = "failed", !.error = "ValueError"]
    /\ UNCHANGED <<runVars, lg, su, mt, lw, fz, ph, sink, ag>>

\* Line 715: RuntimeError of the iterator, the dictionary having changed
\* (line 719) while it is iterated.
StepDictChanged ==
    /\ sp.pc = "init"
    /\ FilteredAt(sp) # {}
    /\ sp.to_numpy =>
           \A i \in UncastableAt(sp) : i > First(FilteredAt(sp))
    /\ sp' = [sp EXCEPT !.pc = "failed", !.error = "RuntimeError"]
    /\ UNCHANGED <<runVars, lg, su, mt, lw, fz, ph, sink, ag>>

StepNext ==
    \/ StepReturn
    \/ StepCannotCast
    \/ StepDictChanged

\* The output keys and the values tried.
OutputKeys == {"loss", "x"}

OutputValues ==
    {Scalar, Tensor(1), Tensor(2), Batch("TensorBatch"), Batch("IndexBatch"),
     ListOf(<<>>), ListOf(<<Batch("TensorBatch")>>),
     ListOf(<<Batch("TensorBatch"), Batch("TensorBatch")>>),
     ListOf(<<Batch("IndexBatch")>>), Other}

\* The output dictionaries: one or two keys, in either order.
OutputDicts ==
    {<<<<k, v>>>> : k \in OutputKeys, v \in OutputValues}
        \cup {<<<<ks[1], v1>>, <<ks[2], v2>>>> :
                 ks \in {q \in OutputKeys \X OutputKeys : q[1] # q[2]},
                 v1 \in OutputValues, v2 \in OutputValues}

\* keep_output / ignore_keys: not given (None), or a list of keys.
ListOptions ==
    {[given |-> FALSE, keys |-> {}]}
        \cup {[given |-> TRUE, keys |-> K] : K \in SUBSET OutputKeys}

\* The manager after process_model (lines 232-236, not both lists) at the
\* filter loop of step(), with the output of the model and of the loss.
StepInit ==
    /\ \E result \in OutputDicts, keep \in ListOptions, ignore \in ListOptions,
          to_numpy \in BOOLEAN :
        /\ ~(Truthy(keep) /\ Truthy(ignore))
        /\ sp = [pc          |-> "init",
                 to_numpy    |-> to_numpy,
                 output_keys |-> keep,
                 ignore_keys |-> ignore,
                 result      |-> result,
                 out         |-> <<>>,
                 error       |-> ""]
    /\ RunIdle
    /\ lw = LwIdle
    /\ su = [pc |-> "idle"]
    /\ mt = [pc |-> "idle"]
    /\ lg = [pc |-> "idle"]
    /\ fz = [pc |-> "idle"]
    /\ ph = <<>>
    /\ sink = [pc |-> "idle"]
    /\ ag = [pc |-> "idle"]

SpecStep == StepInit /\ [][StepNext]_vars

\* The keys that the configured list retains: those of the allow-list, or
\* those not in the deny-list, or all of them.
Retained(s) ==
    IF Truthy(s.output_keys)
    THEN DictKeys(s.result) \cap s.output_keys.keys
    ELSE IF Truthy(s.ignore_keys)
         THEN DictKeys(s.result) \ s.ignore_keys.keys
         ELSE DictKeys(s.result)

\* step() has returned or raised.
StepOver == sp.pc \in {"returned", "failed"}

\* C15: the key set of the returned mapping is exactly the set of retained
\* keys, and step() does not fail because of the filtering.
C15_FilteredKeys ==
    StepOver =>
        /\ sp.error # "RuntimeError"
        /\ sp.pc = "returned" => DOMAIN sp.out = Retained(sp)

\* The types that are to be normalized: scalar, single-element tensor,
\* batch container, list (of any length) of batch containers.
Normalizable(v) ==
    \/ v.kind = "scalar"
    \/ v.kind = "tensor" /\ v.numel = 1
    \/ v.kind = "batch"
    \/ v.kind = "list" /\ \A i \in 1 .. Len(v.items) : v.items[i].kind = "batch"

\* The normal form of a value of these types.
Normalized(v) ==
    IF v.kind = "scalar" THEN v
    ELSE IF v.kind = "tensor" THEN Scalar
    ELSE IF v.kind = "batch" THEN Value("array", v.cls, 0, <<>>)
    ELSE ListOf([i \in 1 .. Len(v.items) |->
                    Value("array", v.items[i].cls, 0, <<>>)])

\* C16: with the cast requested, every retained value is returned in its
\* normal form, and step() fails with "Cannot cast" if and only if some
\* retained value is of another type.
C16_NormalizeRetained ==
    (StepOver /\ sp.to_numpy) =>
        /\ (sp.pc = "failed" /\ sp.error = "ValueError") <=>
               (\E k \in Retained(sp) : ~Normalizable(DictGet(sp.result, k)))
        /\ sp.pc = "returned" =>
               \A k \in Retained(sp) :
                   /\ k \in DOMAIN sp.out
                   /\ sp.out[k] = Normalized(DictGet(sp.result, k))

----------------------------------------------------------------------------
(* write(): the objects gathered from the processes and their merge.       *)

\* An object sent to the gather: a scalar (the fraction num/den), an array
\* or a list (their entries along the first axis, in seq), or None.
ScalarObj(num, den) ==
    [kind |-> "scalar", num |-> num, den |-> den, seq |-> <<>>]

ArrayObj(seq) == [kind |-> "array", num |-> 0, den |-> 1, seq |-> seq]

ListObj(seq) == [kind |-> "list", num |-> 0, den |-> 1, seq |-> seq]

NoneObj == [kind |-> "none", num |-> 0, den |-> 1, seq |-> <<>>]

\* np.sum over the scalars of data_v.
RECURSIVE SumOf(_)
SumOf(data_v) ==
    IF data_v = <<>> THEN 0 ELSE Head(data_v).num + SumOf(Tail(data_v))

\* np.concatenate(data_v), and the repeated list.extend: the entries of the
\* objects of data_v, one object after the other.
RECURSIVE Concatenate(_)
Concatenate(data_v) ==
    IF data_v = <<>>
    THEN <<>>
    ELSE Head(data_v).seq \o Concatenate(Tail(data_v))

\* Lines 809-811: data_v after gather_object: the objects of all the ranks
\* in rank order on the main process, the list of None left as it was made
\* on the others.
GatherObject(values, main_process) ==
    IF main_process
    THEN values
    ELSE [i \in 1 .. Len(values) |-> NoneObj]

\* 'count' in k
HasCount(k) == Contains(k, <<"count">>)

\* Variant: every scalar is averaged, whatever its key.
MergeKeyMeanOnly(k, data_v) ==
    IF data_v[1].kind = "scalar"
    THEN <<<<k, ScalarObj(SumOf(data_v), Len(data_v))>>>>
    ELSE IF data_v[1].kind = "array"
         THEN <<<<k, ArrayObj(Concatenate(data_v))>>>>
         ELSE IF data_v[1].kind = "list"
              THEN <<<<k, ListObj(Concatenate(data_v))>>>>
              ELSE <<>>

\* Lines 812-819: the items that the key k adds to the merged dictionary,
\* by the type of the first object gathered.
MergeKey(k, data_v) ==
    IF data_v[1].kind = "scalar"
    THEN <<<<k, IF ~HasCount(k)
                THEN ScalarObj(SumOf(data_v), Len(data_v))
                ELSE ScalarObj(SumOf(data_v), 1)>>>>
    ELSE IF data_v[1].kind = "array"
         THEN <<<<k, ArrayObj(Concatenate(data_v))>>>>
         ELSE IF data_v[1].kind = "list"
              THEN <<<<k, ListObj(Concatenate(data_v))>>>>
              ELSE <<>>

\* Lines 808-819: the pass of the loop over one stored key stores a value.
MergeStore ==
    /\ ag.pc = "init"
    /\ LET data_v == GatherObject(ag.values, MainProcess(ag.rank))
       IN /\ MergeKey(ag.key, data_v) # <<>>
          /\ ag' = [ag EXCEPT !.pc = "done",
                              !.data_dict = MergeKey(ag.key, data_v)]
    /\ UNCHANGED <<runVars, lg, su, mt, lw, fz, sp, ph, sink>>

\* Lines 808-819: the pass stores nothing, no branch takes a None.
MergeNothing ==
    /\ ag.pc = "init"
    /\ LET data_v == GatherObject(ag.values, MainProcess(ag.rank))
       IN MergeKey(ag.key, data_v) = <<>>
    /\ ag' = [ag EXCEPT !.pc = "done"]
    /\ UNCHANGED <<runVars, lg, su, mt, lw, fz, sp, ph, sink>>

MergeNext ==
    \/ MergeStore
    \/ MergeNothing

\* The processes of the merge and the numbers they send.
MergeWorld == 4
MaxVal == 4

\* The stored keys tried: "loss" and "sample_count".
StoredKeys == {<<"loss">>, <<"sample_", "count">>}

\* What one process sends under a key: a scalar, or an array or a list of
\* at most one entry.
SentObjects(kind) ==
    IF kind = "scalar"
    THEN {ScalarObj(x, 1) : x \in 1 .. MaxVal}
    ELSE IF kind = "array"
         THEN {ArrayObj(<<>>)} \cup {ArrayObj(<<x>>) : x \in 1 .. MaxVal}
         ELSE {ListObj(<<>>)} \cup {ListObj(<<x>>) : x \in 1 .. MaxVal}

\* A distributed write() at one of its stored keys, on the main process or
\* on the process of rank 1.
MergeInit ==
    /\ \E W \in 1 .. MergeWorld, k \in StoredKeys,
          kind \in {"scalar", "array", "list"} :
        \E values \in [1 .. W -> SentObjects(kind)],
           rank \in {r \in 0 .. 1 : r < W} :
            ag = [pc         |-> "init",
                  key        |-> k,
                  world_size |-> W,
                  rank       |-> rank,
                  values     |-> values,
                  data_dict  |-> <<>>]
    /\ RunIdle
    /\ lw = LwIdle
    /\ su = [pc |-> "idle"]
    /\ mt = [pc |-> "idle"]
    /\ lg = [pc |-> "idle"]
    /\ fz = [pc |-> "idle"]
    /\ sp = [pc |-> "idle"]
    /\ ph = <<>>
    /\ sink = [pc |-> "idle"]

SpecMerge == MergeInit /\ [][MergeNext]_vars

\* The numbers sent by the ranks, in rank order.
Sent(values) == [i \in 1 .. Len(values) |-> values[i].num]

\* The sum of the numbers sent by the first n ranks.
RECURSIVE TotalUpTo(_, _)
TotalUpTo(values, n) ==
    IF n = 0 THEN 0 ELSE TotalUpTo(values, n - 1) + values[n].num

\* The number of entries sent by the first n ranks.
RECURSIVE EntriesUpTo(_, _)
EntriesUpTo(values, n) ==
    IF n = 0 THEN 0 ELSE EntriesUpTo(values, n - 1) + Len(values[n].seq)

\* `seq` holds the entries of every rank, rank after rank, each rank's in
\* their order.
InRankOrder(seq, values) ==
    /\ Len(seq) = EntriesUpTo(values, Len(values))
    /\ \A r \in 1 .. Len(values) : \A j \in 1 .. Len(values[r].seq) :
           seq[EntriesUpTo(values, r - 1) + j] = values[r].seq[j]

\* C18: on the main process the merged value of a key is the mean of the
\* per-rank scalars, or their sum when the key contains "count"; for
\* arrays, and for lists, the concatenation of their entries in rank
\* order.  [1,2,3,4] gives 2.5 under "loss", 10 under "sample_count".
C18_MergeRule ==
    (ag.pc = "done" /\ ag.rank = 0) =>
        /\ DictKeys(ag.data_dict) = {ag.key}
        /\ LET merged == DictGet(ag.data_dict, ag.key)
               kind   == ag.values[1].kind
               total  == TotalUpTo(ag.values, ag.world_size)
           IN /\ merged.kind = kind
              /\ (kind = "scalar" /\ ~Contains(ag.key, <<"count">>)) =>
                     merged.num * ag.world_size = total * merged.den
              /\ (kind = "scalar" /\ Contains(ag.key, <<"count">>)) =>
                     merged.num = total * merged.den
              /\ kind \in {"array", "list"} =>
                     InRankOrder(merged.seq, ag.values)
              /\ (kind = "scalar" /\ Sent(ag.values) = <<1, 2, 3, 4>>) =>
                     IF ag.key = <<"loss">>
                     THEN 2 * merged.num = 5 * merged.den
                     ELSE merged.num = 10 * merged.den
              /\ (kind = "array" /\ ag.values = <<ArrayObj(<<1>>),
                        ArrayObj(<<2>>), ArrayObj(<<3>>)>>) =>
                     merged.seq = <<1, 2, 3>>

\* The main process has merged the scalars 1, 2, 3, 4 of four ranks under
\* the key "sample_count".
C18_Witness ==
    /\ ag.pc = "done"
    /\ ag.rank = 0
    /\ ag.key = <<"sample_", "count">>
    /\ ag.values[1].kind = "scalar"
    /\ Sent(ag.values) = <<1, 2, 3, 4>>
    /\ ag.data_dict # <<>>

----------------------------------------------------------------------------
(* The body of the iteration loop of run(), method by method, on every     *)
(* process of the run: train_step (forward, backward), save_state, write,  *)
(* log.  Each process keeps the trace of the calls it makes.               *)

\* A call made during iteration `it`; for loss.backward(), `of` is the
\* iteration whose step() produced self.loss (-1: the float 0. of line 703).
Ev(ev, it, of) == [ev |-> ev, it |-> it, of |-> of]

\* Variant: the output is unwrapped before the model is run.
ForwardCallsUnwrapFirst(c, i) ==
    (IF c.unwrap THEN <<Ev("unwrap", i, i)>> ELSE <<>>)
        \o <<Ev("load", i, i), Ev("forward", i, i)>>
        \o (IF c.has_loss THEN <<Ev("loss", i, i)>> ELSE <<>>)

\* forward(), lines 616-633, with step(), lines 700-709: the batch, the
\* model, the loss if one is configured, the unwrapper if requested.
ForwardCalls(c, i) ==
    <<Ev("load", i, i), Ev("forward", i, i)>>
        \o (IF c.has_loss THEN <<Ev("loss", i, i)>> ELSE <<>>)
        \o (IF c.unwrap THEN <<Ev("unwrap", i, i)>> ELSE <<>>)

\* Lines 703-712: self.loss after step() of iteration i.
LossAfterStep(c, i) == IF c.has_loss /\ c.train THEN i ELSE -1

\* Variant: the buffers are updated before the optimizer steps.
BackwardCallsBuffersFirst(c, i, loss_of) ==
    <<Ev("zero_grad", i, i), Ev("loss.backward", i, loss_of)>>
        \o (IF c.update_buffers THEN <<Ev("update_buffers", i, i)>> ELSE <<>>)
        \o <<Ev("optimizer.step", i, i)>>
        \o (IF c.lr_scheduler THEN <<Ev("lr_scheduler.step", i, i)>> ELSE <<>>)

\* backward(), lines 746-764.
BackwardCalls(c, i, loss_of) ==
    <<Ev("zero_grad", i, i), Ev("loss.backward", i, loss_of),
      Ev("optimizer.step", i, i)>>
        \o (IF c.lr_scheduler THEN <<Ev("lr_scheduler.step", i, i)>> ELSE <<>>)
        \o (IF c.update_buffers THEN <<Ev("update_buffers", i, i)>> ELSE <<>>)

\* The key stored by the writer and the object that rank r holds under it
\* at iteration i: the list of the entries of its batch.
SinkKey == <<"index">>

SentBy(r, i) == ListObj(<<i * cfg.world_size + r>>)

\* The objects of iteration i in rank order, once every rank has sent its.
ValuesOf(i) == [q \in 1 .. cfg.world_size |-> SentBy(q - 1, i)]

\* write(), lines 801-837: the call of self.writer.append made by rank r.
Appends(r, i) ==
    IF ~cfg.distributed
    THEN {[rank |-> r, it |-> i, data |-> <<<<SinkKey, SentBy(r, i)>>>>]}
    ELSE {[rank |-> r, it |-> i,
           data |-> MergeKey(SinkKey,
                       GatherObject(ValuesOf(i), MainProcess(r)))]}

\* The position after the end of an iteration.
NextPass(r) ==
    [ph EXCEPT ![r].iteration = @ + 1,
               ![r].pc = IF ph[r].iteration + 1 < NIterations(cfg, 0)
                         THEN "forward" ELSE "done"]

\* The batch of iteration i has every product that the mapping `kind`
\* ("input" or "loss") names.
InData(c, kind, i) == ~(c.missing.kind = kind /\ c.missing.at = i)

\* Variant: only the names of the model input are looked up.
GetDataMinibatchInputOnly(c, i) ==
    IF ~InData(c, "input", i) THEN 659 ELSE 0

\* get_data_minibatch(), lines 654-681: the line of the assertion that
\* fails on the batch of iteration i, or 0 if both dictionaries are filled:
\* the names of self.input_dict first, then those of self.loss_dict if
\* there is one.
GetDataMinibatch(c, i) ==
    IF ~InData(c, "input", i) THEN 659
    ELSE IF c.has_loss /\ ~InData(c, "loss", i) THEN 672
    ELSE 0

\* Lines 618-619: the batch is read and an assertion of
\* get_data_minibatch fails; the exception leaves forward(), train_step()
\* and run().
PhForwardFail(r) ==
    /\ ph[r].pc = "forward"
    /\ GetDataMinibatch(cfg, ph[r].iteration) # 0
    /\ ph' = [ph EXCEPT
                 ![r].pc = "failed",
                 ![r].trace = @ \o <<Ev("load", ph[r].iteration,
                                         ph[r].iteration),
                                      Ev("AssertionError", ph[r].iteration,
                                         GetDataMinibatch(cfg,
                                                          ph[r].iteration))>>]
    /\ UNCHANGED <<runVars, lg, su, mt, lw, fz, sp, sink, ag>>

\* Line 591: forward().
PhForward(r) ==
    /\ ph[r].pc = "forward"
    /\ GetDataMinibatch(cfg, ph[r].iteration) = 0
    /\ ph' = [ph EXCEPT
                 ![r].pc = "backward",
                 ![r].trace = @ \o ForwardCalls(cfg, ph[r].iteration),
                 ![r].loss_of = LossAfterStep(cfg, ph[r].iteration)]
    /\ UNCHANGED <<runVars, lg, su, mt, lw, fz, sp, sink, ag>>

\* Lines 594-597: backward() if training.
PhBackward(r) ==
    /\ ph[r].pc = "backward"
    /\ cfg.train => ph[r].loss_of # -1
    /\ ph' = [ph EXCEPT
                 ![r].pc = "save",
                 ![r].trace =
                     IF cfg.train
                     THEN @ \o BackwardCalls(cfg, ph[r].iteration,
                                             ph[r].loss_of)
                     ELSE @]
    /\ UNCHANGED <<runVars, lg, su, mt, lw, fz, sp, sink, ag>>

\* Lines 747-750: self.loss is the float 0., which has no backward().
PhBackwardFail(r) ==
    /\ ph[r].pc = "backward"
    /\ cfg.train
    /\ ph[r].loss_of = -1
    /\ ph' = [ph EXCEPT
                 ![r].pc = "failed",
                 ![r].trace = Append(@, Ev("zero_grad", ph[r].iteration,
                                           ph[r].iteration))]
    /\ UNCHANGED <<runVars, lg, su, mt, lw, fz, sp, sink, ag>>

\* Lines 554-558: save_state() at the cadence, on the main process.
PhSave(r) ==
    /\ ph[r].pc = "save"
    /\ ph' = [ph EXCEPT
                 ![r].pc = "write",
                 ![r].trace =
                     IF /\ cfg.train
                        /\ SaveStep(ph[r].iteration, cfg.checkpoint_step)
                        /\ MainProcess(r)
                     THEN Append(@, Ev("save", ph[r].iteration,
                                       ph[r].iteration))
                     ELSE @]
    /\ UNCHANGED <<runVars, lg, su, mt, lw, fz, sp, sink, ag>>

\* Lines 561-564 and write(): nothing without a writer; else the objects
\* are gathered on the main process, which waits for those of every rank,
\* and self.writer.append is called.
PhWrite(r) ==
    /\ ph[r].pc = "write"
    /\ (cfg.writer /\ cfg.distributed /\ MainProcess(r)) =>
           \A q \in DOMAIN ph \ {r} :
               [it |-> ph[r].iteration, rank |-> q] \in sink.gathered
    /\ ph' = [ph EXCEPT
                 ![r].pc = "log",
                 ![r].trace =
                     IF cfg.writer
                     THEN Append(@, Ev("append", ph[r].iteration,
                                       ph[r].iteration))
                     ELSE @]
    /\ sink' =
           IF ~cfg.writer
           THEN sink
           ELSE [sink EXCEPT
                    !.gathered =
                        IF cfg.distributed
                        THEN @ \cup {[it |-> ph[r].iteration, rank |-> r]}
                        ELSE @,
                    !.appends = @ \cup Appends(r, ph[r].iteration)]
    /\ UNCHANGED <<runVars, lg, su, mt, lw, fz, sp, ag>>

\* Lines 570-573 and log(): the record; without the barriers of a
\* distributed run the counter is incremented at once.
PhLog(r) ==
    /\ ph[r].pc = "log"
    /\ LET logged == [ph EXCEPT ![r].trace =
                         Append(@, Ev("log", ph[r].iteration,
                                      ph[r].iteration))]
       IN ph' = IF cfg.distributed
                THEN [logged EXCEPT ![r].pc = "barrier"]
                ELSE [logged EXCEPT
                         ![r].iteration = @ + 1,
                         ![r].pc = NextPass(r)[r].pc]
    /\ UNCHANGED <<runVars, lg, su, mt, lw, fz, sp, sink, ag>>

\* Lines 908-937: torch.distributed.barrier() in log() (report_step = 1):
\* a process goes on when every process has logged the iteration.
PhBarrier(r) ==
    /\ ph[r].pc = "barrier"
    /\ \A q \in DOMAIN ph :
           \/ ph[q].iteration > ph[r].iteration
           \/ ph[q].iteration = ph[r].iteration /\ ph[q].pc = "barrier"
    /\ ph' = NextPass(r)
    /\ UNCHANGED <<runVars, lg, su, mt, lw, fz, sp, sink, ag>>

PhaseNext ==
    \/ \E r \in DOMAIN ph : PhForward(r)
    \/ \E r \in DOMAIN ph : PhBackward(r)
    \/ \E r \in DOMAIN ph : PhBackwardFail(r)
    \/ \E r \in DOMAIN ph : PhSave(r)
    \/ \E r \in DOMAIN ph : PhWrite(r)
    \/ \E r \in DOMAIN ph : PhLog(r)
    \/ \E r \in DOMAIN ph : PhBarrier(r)

\* The processes and the iterations of the runs followed call by call.
PhaseWorld == 2
PhaseIters == 2

\* No batch lacks a product.
NoneMissing == [kind |-> "none", at |-> 0]

\* The configuration of the run, with the options that the calls depend on;
\* the batches hold every product unless the options say otherwise.
PhaseConfig(N, W, c, train, opts) ==
    opts @@ [missing |-> NoneMissing] @@ ProcessConfig(N, W, N, c, train, 0)

\* The options: process_main forces `distributed` for more than one
\* process and process_io refuses a writer without `unwrap`.
PhaseOptions(W) ==
    {o \in [distributed : BOOLEAN, has_loss : BOOLEAN, lr_scheduler : BOOLEAN,
            update_buffers : BOOLEAN, writer : BOOLEAN, unwrap : BOOLEAN] :
        /\ W > 1 => o.distributed
        /\ o.writer => o.unwrap}

\* All the processes of a run of one epoch, at the top of the loop.
PhaseInit ==
    /\ \E N \in 1 .. PhaseIters, W \in 1 .. PhaseWorld, c \in 1 .. MaxStep,
          train \in BOOLEAN :
        \E opts \in PhaseOptions(W) :
            /\ cfg = PhaseConfig(N, W, c, train, opts)
            /\ ph = [r \in 0 .. W - 1 |->
                        [pc |-> "forward", iteration |-> 0, loss_of |-> -1,
                         trace |-> <<>>]]
    /\ sink = [gathered |-> {}, appends |-> {}]
    /\ procs = {}
    /\ pc = <<>>
    /\ epoch = <<>>
    /\ num_epochs = <<>>
    /\ n_left = <<>>
    /\ iteration = <<>>
    /\ executed = <<>>
    /\ epoch_iters = <<>>
    /\ ckpt_writes = {}
    /\ seeds = <<>>
    /\ lw = LwIdle
    /\ su = [pc |-> "idle"]
    /\ mt = [pc |-> "idle"]
    /\ lg = [pc |-> "idle"]
    /\ fz = [pc |-> "idle"]
    /\ sp = [pc |-> "idle"]
    /\ ag = [pc |-> "idle"]

SpecPhase == PhaseInit /\ [][PhaseNext]_vars

\* The calls of backward() that rank r made during iteration i, in order.
BackwardNames ==
    {"zero_grad", "loss.backward", "optimizer.step", "lr_scheduler.step",
     "update_buffers"}

BackwardOf(r, i) ==
    SelectSeq(ph[r].trace, LAMBDA e : e.it = i /\ e.ev \in BackwardNames)

\* Rank r is past the train_step of iteration i.
PastTrainStep(r, i) ==
    \/ i < ph[r].iteration
    \/ i = ph[r].iteration /\ ph[r].pc \in {"save", "write", "log", "barrier"}

\* C17: in every training iteration backward() resets the gradients,
\* computes the gradients of the loss of that iteration's step, steps the
\* optimizer, steps the scheduler if one is configured, then calls
\* update_buffers() if the model has it, each once and in this order; in
\* inference mode backward() is never called.
C17_BackwardOrder ==
    \A r \in DOMAIN ph : \A i \in 0 .. cfg.iterations - 1 :
        /\ (cfg.train /\ PastTrainStep(r, i)) =>
               BackwardOf(r, i) =
                   <<[ev |-> "zero_grad", it |-> i, of |-> i],
                     [ev |-> "loss.backward", it |-> i, of |-> i],
                     [ev |-> "optimizer.step", it |-> i, of |-> i]>>
                   \o (IF cfg.lr_scheduler
                       THEN <<[ev |-> "lr_scheduler.step", it |-> i, of |-> i]>>
                       ELSE <<>>)
                   \o (IF cfg.update_buffers
                       THEN <<[ev |-> "update_buffers", it |-> i, of |-> i]>>
                       ELSE <<>>)
        /\ ~cfg.train => BackwardOf(r, i) = <<>>

\* Two processes train with a scheduler and a model that has
\* update_buffers(), and both are past the backward() of their second
\* iteration.
C17_Witness ==
    /\ cfg.train
    /\ cfg.lr_scheduler
    /\ cfg.update_buffers
    /\ DOMAIN ph = {0, 1}
    /\ \A r \in DOMAIN ph : PastTrainStep(r, 1) /\ Len(BackwardOf(r, 1)) = 5

\* The appends made for iteration i.
AppendsFor(i) == {a \in sink.appends : a.it = i}

\* Every process is past the write() of iteration i.
AllPastWrite(i) ==
    \A r \in DOMAIN ph :
        \/ i < ph[r].iteration
        \/ i = ph[r].iteration /\ ph[r].pc \in {"log", "barrier"}

\* C19: in a distributed run with a sink, the append of an iteration is
\* made once, by the main process, with the objects of all the ranks
\* merged; no process of another rank appends.
C19_SingleAppend ==
    (cfg.distributed /\ cfg.writer) =>
        /\ \A a \in sink.appends : a.rank = 0
        /\ \A i \in 0 .. cfg.iterations - 1 :
               AllPastWrite(i) =>
                   /\ Cardinality(AppendsFor(i)) = 1
                   /\ \A a \in AppendsFor(i) :
                          /\ DictKeys(a.data) = {SinkKey}
                          /\ InRankOrder(DictGet(a.data, SinkKey).seq,
                                         ValuesOf(i))

\* The phase of the iteration that a call belongs to.
PhaseOf(e) ==
    IF e.ev \in BackwardNames THEN "backward"
    ELSE IF e.ev = "append" THEN "write"
    ELSE e.ev

\* The position of `phase` in the order `order`.
Position(order, phase) == CHOOSE k \in 1 .. Len(order) : order[k] = phase

\* The trace of rank r goes iteration by iteration, the phases of each in
\* the order `order`, and an iteration starts after the log of the one
\* before.
FollowsOrder(r, order) ==
    LET t == ph[r].trace IN
    /\ \A p \in 1 .. Len(t) - 1 :
           \/ /\ t[p + 1].it = t[p].it
              /\ Position(order, PhaseOf(t[p]))
                     <= Position(order, PhaseOf(t[p + 1]))
           \/ /\ t[p + 1].it = t[p].it + 1
              /\ t[p].ev = "log"
    /\ \A p \in 1 .. Len(t) : \A q \in p + 1 .. Len(t) :
           (t[p].it = t[q].it /\ PhaseOf(t[p]) = PhaseOf(t[q])) =>
               \A m \in p .. q : PhaseOf(t[m]) = PhaseOf(t[p])

\* C20, as stated: load batch, forward, loss, backward, checkpoint save,
\* unwrap, sink write, log.
C20_OrderAsStated ==
    \A r \in DOMAIN ph :
        FollowsOrder(r, <<"load", "forward", "loss", "backward", "save",
                          "unwrap", "write", "log">>)

\* C20, amended: within each iteration of each process the phases occur in
\* the order load batch, forward, loss, unwrap, backward (train mode only),
\* checkpoint save, sink write, log, and no phase of iteration i+1 starts
\* before the log of iteration i.
C20_PhaseOrder ==
    \A r \in DOMAIN ph :
        FollowsOrder(r, <<"load", "forward", "loss", "unwrap", "backward",
                          "save", "write", "log">>)

\* The main process of a training run with a loss, the unwrapper and a
\* writer has logged two iterations, the second with a checkpoint: all the
\* eight phases are in its trace.
C20_Witness ==
    /\ cfg.train
    /\ cfg.has_loss
    /\ cfg.unwrap
    /\ cfg.writer
    /\ ph[0].iteration = 2
    /\ {PhaseOf(ph[0].trace[p]) : p \in
           {q \in 1 .. Len(ph[0].trace) : ph[0].trace[q].it = 1}}
         = {"load", "forward", "loss", "unwrap", "backward", "save",
            "write", "log"}

----------------------------------------------------------------------------
(* The seeds of the sampler and the epoch counter of the log.               *)

\* epoch = iteration / iter_per_epoch (line 546), as a fraction, with
\* iter_per_epoch = len(self.loader) / self.world_size (line 534).
EpochCounter(c, it) == <<it * c.world_size, c.loader_len>>

\* The integer part of a non-negative fraction.
IntegerPart(f) == f[1] \div f[2]

\* The number of iterations run by the first k epochs of rank r.
RECURSIVE IterationsUpTo(_, _)
IterationsUpTo(r, k) ==
    IF k = 0 THEN 0 ELSE IterationsUpTo(r, k - 1) + epoch_iters[r][k]

\* The index of the first iteration of the k-th epoch that rank r started.
FirstIterationOf(r, k) == executed[r][IterationsUpTo(r, k - 1) + 1]

\* C21: in a distributed run the sampler is re-seeded at the start of every
\* epoch, and the seed is the integer part of the epoch counter logged for
\* the first iteration of that epoch, also when the run resumes from a
\* checkpoint.
C21_SeedIsEpoch ==
    \A r \in procs :
        cfg.distributed =>
            /\ Len(seeds[r]) = Len(epoch_iters[r])
            /\ \A k \in 1 .. Len(epoch_iters[r]) :
                   epoch_iters[r][k] > 0 =>
                       seeds[r][k] =
                           IntegerPart(EpochCounter(cfg, FirstIterationOf(r, k)))

----------------------------------------------------------------------------
(* The set-up of a run: process_world of src/spine/main.py with the launch *)
(* that follows it, and SPICEManager.__init__ with process_main,           *)
(* process_model, process_io and initialize.                               *)
(*                                                                         *)
(* An option that is absent (a missing key, or None) is the empty tuple    *)
(* and an option that is set is the tuple of its value; a list of devices  *)
(* is set to its length.                                                   *)

MaxDevices == 2

NoneOpt == <<>>

Some(v) == <<v>>

IsNone(o) == o = NoneOpt

\* dict.get(key, default)
GetOr(o, default) == IF IsNone(o) THEN default ELSE o[1]

\* Lines 153-158 of main.py: the world that process_world returns, or the
\* assertion that it raises.
ProcessWorld(base) ==
    LET world_size  == GetOr(base.world_size, 0)
        distributed == GetOr(base.distributed, world_size > 1)
    IN IF world_size < 2 \/ distributed
       THEN [error |-> "none", distributed |-> distributed,
             world_size |-> world_size]
       ELSE [error |-> "AssertionError", distributed |-> distributed,
             world_size |-> world_size]

\* Lines 32-54 of main.py: what run() launches for the world it was given
\* on a host with `visible` devices.
Launch(world, train, visible) ==
    IF ~world.distributed
    THEN [error |-> "none", launched |-> "run_single", nprocs |-> 1]
    ELSE IF ~train \/ world.world_size > visible
         THEN [error |-> "AssertionError", launched |-> "nothing",
               nprocs |-> 0]
         ELSE [error |-> "none", launched |-> "spawn",
               nprocs |-> world.world_size]

\* Python's max(a, b).
PyMax(a, b) == IF b > a THEN b ELSE a

\* Variant: the budget check passes when at least one of the two is set.
BudgetCheckEither(iterations, epochs) == ~IsNone(iterations) \/ ~IsNone(epochs)

\* Line 166: (self.iterations is not None) ^ (self.epochs is not None)
BudgetCheck(iterations, epochs) == (~IsNone(iterations)) # (~IsNone(epochs))

\* process_main, lines 131-178: the attributes stored, or the error raised.
ProcessMain(a) ==
    IF IsNone(a.gpus)
    THEN \* len(None) on line 157
         [error |-> "TypeError", world_size |-> 0,
          distributed |-> a.distributed, to_numpy |-> a.to_numpy]
    ELSE LET world_size  == PyMax(1, a.gpus[1])
             distributed == IF world_size > 1 THEN TRUE ELSE a.distributed
             to_numpy    == IF a.unwrap THEN TRUE ELSE a.to_numpy
             error       == IF ~BudgetCheck(a.iterations, a.epochs)
                            THEN "AssertionError"
                            ELSE IF a.train /\ IsNone(a.optimizer)
                                 THEN "AssertionError"
                                 ELSE "none"
         IN [error |-> error, world_size |-> world_size,
             distributed |-> distributed, to_numpy |-> to_numpy]

\* process_model, lines 232-236: Python's `and` on the two lists, where an
\* empty list and None are both false.
ProcessModel(a) ==
    IF a.keep_output /\ a.ignore_keys THEN "AssertionError" ELSE "none"

\* process_io, lines 275-280.
WriterCheck(a) ==
    IF ~IsNone(a.writer) /\ ~a.unwrap THEN "ValueError" ELSE "none"

\* Line 65: self.process_main(**trainval).
SetupProcessMain ==
    /\ su.pc = "process_main"
    /\ LET m == ProcessMain(su.args) IN
        su' = [su EXCEPT
                  !.pc = IF m.error = "none" THEN "process_model" ELSE "failed",
                  !.error = m.error,
                  !.world_size = m.world_size,
                  !.distributed = m.distributed]
    /\ UNCHANGED <<runVars, lg, lw, fz, sp, ph, sink, ag, mt>>

\* Line 68: self.process_model(**model).
SetupProcessModel ==
    /\ su.pc = "process_model"
    /\ LET e == ProcessModel(su.args) IN
        su' = [su EXCEPT
                  !.pc = IF e = "none" THEN "process_io" ELSE "failed",
                  !.error = e]
    /\ UNCHANGED <<runVars, lg, lw, fz, sp, ph, sink, ag, mt>>

\* Line 71: self.process_io(**io): the loader is made first, the writer
\* check comes after.
SetupProcessIO ==
    /\ su.pc = "process_io"
    /\ LET e == WriterCheck(su.args) IN
        su' = [su EXCEPT
                  !.pc = IF e = "none" THEN "initialize" ELSE "failed",
                  !.error = e,
                  !.created =
                      @ \o <<"loader">>
                        \o (IF e = "none" /\ ~IsNone(su.args.writer)
                            THEN <<"writer">> ELSE <<>>)]
    /\ UNCHANGED <<runVars, lg, lw, fz, sp, ph, sink, ag, mt>>

\* Line 79: self.initialize(): the model and the loss, then the optimizer
\* when training; freeze_weights and load_weights raise or not.
SetupInitialize ==
    /\ su.pc = "initialize"
    /\ su' = [su EXCEPT
                 !.pc = IF su.args.weights_ok THEN "ready" ELSE "failed",
                 !.error = IF su.args.weights_ok THEN "none" ELSE "ValueError",
                 !.created =
                     @ \o <<"model", "loss">>
                       \o (IF su.args.train THEN <<"optimizer">> ELSE <<>>)]
    /\ UNCHANGED <<runVars, lg, lw, fz, sp, ph, sink, ag, mt>>

\* Line 29 of main.py: process_world(**cfg).
SetupProcessWorld ==
    /\ su.pc = "process_world"
    /\ LET w == ProcessWorld(su.args) IN
        su' = [su EXCEPT
                  !.pc = IF w.error = "none" THEN "launch" ELSE "failed",
                  !.error = w.error,
                  !.world_size = w.world_size,
                  !.distributed = w.distributed]
    /\ UNCHANGED <<runVars, lg, lw, fz, sp, ph, sink, ag, mt>>

\* Lines 32-54 of main.py.
SetupLaunch ==
    /\ su.pc = "launch"
    /\ LET l == Launch(su, su.args.train, su.args.visible) IN
        su' = [su EXCEPT
                  !.pc = IF l.error = "none" THEN "launched" ELSE "failed",
                  !.error = l.error,
                  !.created = IF l.error = "none"
                              THEN <<l.launched, l.nprocs>> ELSE @]
    /\ UNCHANGED <<runVars, lg, lw, fz, sp, ph, sink, ag, mt>>

SetupNext ==
    \/ SetupProcessWorld
    \/ SetupLaunch
    \/ SetupProcessMain
    \/ SetupProcessModel
    \/ SetupProcessIO
    \/ SetupInitialize

\* The `base` blocks given to main.run.
BaseConfigs ==
    [world_size  : {NoneOpt} \cup {Some(n) : n \in 0 .. MaxDevices},
     distributed : {NoneOpt} \cup {Some(b) : b \in BOOLEAN},
     train       : BOOLEAN,
     visible     : 0 .. MaxDevices]

\* The configurations given to SPICEManager.
ManagerConfigs ==
    [gpus        : {NoneOpt} \cup {Some(n) : n \in 0 .. MaxDevices},
     distributed : BOOLEAN,
     iterations  : {NoneOpt, Some(-1), Some(2)},
     epochs      : {NoneOpt, Some(1)},
     train       : BOOLEAN,
     optimizer   : {NoneOpt, Some("Adam")},
     to_numpy    : BOOLEAN,
     unwrap      : BOOLEAN,
     keep_output : BOOLEAN,
     ignore_keys : BOOLEAN,
     writer      : {NoneOpt, Some("hdf5")},
     weights_ok  : BOOLEAN]

SetupInit ==
    /\ \/ \E b \in BaseConfigs :
              su = [pc |-> "process_world", args |-> b, error |-> "none",
                    world_size |-> 0, distributed |-> FALSE, created |-> <<>>]
       \/ \E a \in ManagerConfigs :
              su = [pc |-> "process_main", args |-> a, error |-> "none",
                    world_size |-> 0, distributed |-> FALSE, created |-> <<>>]
    /\ RunIdle
    /\ lw = LwIdle
    /\ fz = [pc |-> "idle"]
    /\ sp = [pc |-> "idle"]
    /\ ph = <<>>
    /\ sink = [pc |-> "idle"]
    /\ ag = [pc |-> "idle"]
    /\ mt = [pc |-> "idle"]
    /\ lg = [pc |-> "idle"]

SpecSetup == SetupInit /\ [][SetupNext]_vars

\* The configuration has been processed and was not refused.
Configured ==
    su.pc \in {"launch", "launched", "process_model", "process_io",
               "initialize", "ready"}

\* C22: after configuration processing, world_size > 1 if and only if the
\* run is distributed.
C22_WorldIffDistributed ==
    Configured => ((su.world_size > 1) <=> su.distributed)

\* Exactly one of `iterations` and `epochs` is set.
ExactlyOneBudget(a) ==
    \/ ~IsNone(a.iterations) /\ IsNone(a.epochs)
    \/ IsNone(a.iterations) /\ ~IsNone(a.epochs)

\* The options other than the budget are ones that set-up accepts.
OtherOptionsValid(a) ==
    /\ ~IsNone(a.gpus)
    /\ a.train => ~IsNone(a.optimizer)
    /\ ~(a.keep_output /\ a.ignore_keys)
    /\ ~IsNone(a.writer) => a.unwrap
    /\ a.weights_ok

\* The set-up under way is that of a manager.
OfManager == "gpus" \in DOMAIN su.args

\* C23: the manager is set up only if exactly one of `iterations` and
\* `epochs` is set, and with the other options valid it is then never
\* refused; with both or neither, set-up fails in process_main, by the
\* assertion of the budget when the device list is given, before the data
\* loader, the model or anything else is created.
C23_BudgetExclusive ==
    OfManager =>
        /\ su.pc = "ready" => ExactlyOneBudget(su.args)
        /\ (ExactlyOneBudget(su.args) /\ OtherOptionsValid(su.args)) =>
               su.pc # "failed"
        /\ (~ExactlyOneBudget(su.args) /\ su.pc # "process_main") =>
               /\ su.pc = "failed"
               /\ su.created = <<>>
               /\ ~IsNone(su.args.gpus) => su.error = "AssertionError"

\* A configuration with both `iterations` and `epochs`, valid otherwise,
\* has been refused by the assertion, with nothing created.
C23_Witness ==
    /\ OfManager
    /\ ~IsNone(su.args.iterations)
    /\ ~IsNone(su.args.epochs)
    /\ OtherOptionsValid(su.args)
    /\ su.pc = "failed"
    /\ su.error = "AssertionError"
    /\ su.created = <<>>

----------------------------------------------------------------------------
(* The matcher of src/spine/post/evaluation/match.py: the construction of  *)
(* a MatchProcessor with its Matcher blocks, and generate_matches called   *)
(* with the parameters that it declares.                                   *)
(*                                                                         *)
(* Objects are known by their position in their list, from 1; the target   *)
(* 0 is None.  An overlap is a whole number of steps of the metric.        *)

MaxSources == 2
MaxTargets == 2
MaxCalls == 2

\* The overlap values of the matrices and the values of min_overlap.
OverlapValues == {0, 1, 2}

Thresholds == {0, 1}

\* Lines 67-71.
MatchModes == {"reco_to_truth", "truth_to_reco", "both", "all"}

OverlapModes == {"count", "iou", "dice", "chamfer"}

\* An exception and the line that raises it.
Raised(type, line) == [type |-> type, line |-> line]

NoError == Raised("none", 0)

\* Matcher.__post_init__, lines 73-92: the two assertions on the modes,
\* then line 86, which reads the names `weighted` and `overlap`; the module
\* defines neither, and reading `weighted` raises NameError.
PostInit(kw) ==
    IF kw.match_mode \notin MatchModes
    THEN Raised("AssertionError", 76)
    ELSE IF kw.overlap_mode \notin OverlapModes
         THEN Raised("AssertionError", 81)
         ELSE Raised("NameError", 86)

\* MatchProcessor.__init__, lines 33-42: the Matcher of each category that
\* is configured, in the order fragments, particles, interactions; the
\* first one that raises ends the construction.
RECURSIVE InitMatchers(_, _)
InitMatchers(categories, matchers) ==
    IF categories = <<>>
    THEN IF matchers = <<>>
         THEN [error |-> Raised("AssertionError", 41), matchers |-> matchers]
         ELSE [error |-> NoError, matchers |-> matchers]
    ELSE LET c == Head(categories) IN
         IF IsNone(c.kwargs)
         THEN InitMatchers(Tail(categories), matchers)
         ELSE LET e == PostInit(c.kwargs[1]) IN
              IF e # NoError
              THEN [error |-> e, matchers |-> matchers]
              ELSE InitMatchers(Tail(categories),
                                Append(matchers, <<c.name, c.kwargs[1]>>))

\* MatchProcessor(fragments=..., particles=..., interactions=...), for an
\* entry with one reconstructed and one true object waiting to be matched.
\* Without a processor process() is never called: the objects and the
\* result dictionary of the entry stay as they are.
MtConstruct ==
    /\ mt.pc = "construct"
    /\ LET made == InitMatchers(mt.categories, <<>>) IN
        mt' = [mt EXCEPT
                  !.pc = IF made.error = NoError THEN "constructed"
                         ELSE "failed",
                  !.error = made.error,
                  !.matchers = made.matchers]
    /\ UNCHANGED <<runVars, lg, lw, fz, sp, ph, sink, ag, su>>

\* The orderings of the indices 1 .. n.
IndexPermutations(n) ==
    {p \in [1 .. n -> 1 .. n] : \A a, b \in 1 .. n : a # b => p[a] # p[b]}

\* np.where(ovl_valid[i])[0]: the valid targets of a row, in index order.
RECURSIVE MatchIdxs(_, _)
MatchIdxs(valid_row, m) ==
    IF m = 0 THEN <<>>
    ELSE MatchIdxs(valid_row, m - 1)
             \o (IF valid_row[m] THEN <<m>> ELSE <<>>)

\* np.argsort(overlaps): a permutation that sorts the values in increasing
\* order; the default sort is not stable, equal values come in any order.
ArgSorts(values) ==
    {p \in IndexPermutations(Len(values)) :
        \A k \in 1 .. Len(values) - 1 : values[p[k]] <= values[p[k + 1]]}

\* perm[::-1]
Reversed(s) == [k \in 1 .. Len(s) |-> s[Len(s) + 1 - k]]

\* arr[perm]
Take(arr, perm) == [k \in 1 .. Len(perm) |-> arr[perm[k]]]

\* ovl_valid = ovl_matrix > matcher.min_overlap, one row.
ValidRow(row, min_overlap) == [j \in 1 .. Len(row) |-> row[j] > min_overlap]

\* The attributes of an object that the matcher writes; `set` tells that
\* generate_matches has assigned them.
Fields(is_matched, match, match_overlap) ==
    [is_matched |-> is_matched, match |-> match,
     match_overlap |-> match_overlap, set |-> TRUE]

Untouched ==
    [is_matched |-> FALSE, match |-> <<>>, match_overlap |-> <<>>,
     set |-> FALSE]

\* Variant: an object without a match keeps its flag raised.
UnmatchedFieldsFlagged == Fields(TRUE, <<>>, <<>>)

\* Lines 187-189.
UnmatchedFields == Fields(FALSE, <<>>, <<>>)

\* Lines 196-200, for the permutation that argsort returned.
MatchedFields(row, match_idxs, perm) ==
    LET overlaps == Take(row, match_idxs)
    IN Fields(TRUE, Take(match_idxs, Reversed(perm)),
              Take(overlaps, Reversed(perm)))

\* The valid targets of the source that the loop is at.
CurrentIdxs ==
    MatchIdxs(ValidRow(mt.matrix[mt.i], mt.min_overlap),
              Len(mt.matrix[mt.i]))

\* Lines 185-192: a pass of the loop for a source without a valid target.
MtUnmatched ==
    /\ mt.pc = "loop"
    /\ mt.i <= Len(mt.matrix)
    /\ CurrentIdxs = <<>>
    /\ mt' = [mt EXCEPT
                 !.objs[mt.i] = UnmatchedFields,
                 !.pairs = Append(@, <<mt.i, 0>>),
                 !.overlaps = Append(@, -1),
                 !.i = @ + 1]
    /\ UNCHANGED <<runVars, lg, lw, fz, sp, ph, sink, ag, su>>

\* Lines 194-204: a pass for a source with valid targets.  `overlaps` is
\* bound again to the row of values (line 196), the attributes are set,
\* and line 203 reads `truth_objs`, a name that the function does not have
\* (its parameter is target_objs): NameError.
MtMatched ==
    /\ mt.pc = "loop"
    /\ mt.i <= Len(mt.matrix)
    /\ CurrentIdxs # <<>>
    /\ \E perm \in ArgSorts(Take(mt.matrix[mt.i], CurrentIdxs)) :
        mt' = [mt EXCEPT
                  !.objs[mt.i] =
                      MatchedFields(mt.matrix[mt.i], CurrentIdxs, perm),
                  !.overlaps = Take(mt.matrix[mt.i], CurrentIdxs),
                  !.pc = "failed",
                  !.error = Raised("NameError", 203)]
    /\ UNCHANGED <<runVars, lg, lw, fz, sp, ph, sink, ag, su>>

\* Line 207: return pairs, overlaps.
MtReturn ==
    /\ mt.pc = "loop"
    /\ mt.i > Len(mt.matrix)
    /\ mt' = [mt EXCEPT !.pc = "returned",
                        !.result = <<mt.pairs, mt.overlaps>>]
    /\ UNCHANGED <<runVars, lg, lw, fz, sp, ph, sink, ag, su>>

\* The state at the entry of generate_matches (line 181) for the objects
\* `objs`, in call number `calls`.
GenerateEntry(objs, matrix, min_overlap, calls) ==
    [pc |-> "loop", entry |-> "generate_matches", matrix |-> matrix,
     min_overlap |-> min_overlap, objs |-> objs, i |-> 1, pairs |-> <<>>,
     overlaps |-> <<>>, result |-> <<>>, error |-> NoError, calls |-> calls]

\* A further call on the same objects, with another validity threshold.
MtCallAgain ==
    /\ mt.pc \in {"returned", "failed"}
    /\ mt.entry = "generate_matches"
    /\ mt.calls < MaxCalls
    /\ \E min \in Thresholds \ {mt.min_overlap} :
        mt' = GenerateEntry(mt.objs, mt.matrix, min, mt.calls + 1)
    /\ UNCHANGED <<runVars, lg, lw, fz, sp, ph, sink, ag, su>>

MatchNext ==
    \/ MtConstruct
    \/ MtUnmatched
    \/ MtMatched
    \/ MtReturn
    \/ MtCallAgain

\* The keyword arguments tried for a Matcher.
MatcherKwargs ==
    [match_mode     : MatchModes \cup {"best"},
     overlap_mode   : OverlapModes \cup {"l2"},
     weight_overlap : BOOLEAN]

\* The categories given to MatchProcessor: each absent, or configured.
CategoryConfigs ==
    {<<[name |-> "fragments", kwargs |-> f],
       [name |-> "particles", kwargs |-> p],
       [name |-> "interactions", kwargs |-> NoneOpt]>> :
        f \in {NoneOpt} \cup {Some(k) : k \in MatcherKwargs},
        p \in {NoneOpt, Some([match_mode |-> "both", overlap_mode |-> "iou",
                              weight_overlap |-> FALSE])}}

\* The overlap matrices given to generate_matches: N sources, M targets.
Matrices ==
    UNION {[1 .. N -> [1 .. M -> OverlapValues]] :
              N \in 1 .. MaxSources, M \in 0 .. MaxTargets}

MatchInit ==
    /\ \/ \E c \in CategoryConfigs :
              mt = [pc |-> "construct", entry |-> "MatchProcessor",
                    categories |-> c, matchers |-> <<>>, error |-> NoError,
                    reco |-> <<Untouched>>, truth |-> <<Untouched>>,
                    result_dict |-> <<>>]
       \/ \E matrix \in Matrices, min \in Thresholds :
              mt = GenerateEntry([i \in 1 .. Len(matrix) |-> Untouched],
                                 matrix, min, 1)
    /\ RunIdle
    /\ lw = LwIdle
    /\ fz = [pc |-> "idle"]
    /\ sp = [pc |-> "idle"]
    /\ ph = <<>>
    /\ sink = [pc |-> "idle"]
    /\ ag = [pc |-> "idle"]
    /\ su = [pc |-> "idle"]
    /\ lg = [pc |-> "idle"]

SpecMatch == MatchInit /\ [][MatchNext]_vars

\* A call of generate_matches is over: it returned or it raised.
CallOver == mt.entry = "generate_matches" /\ mt.pc \in {"returned", "failed"}

\* The sources of the call and those without a target that passes the
\* validity mask.
Sources == 1 .. Len(mt.matrix)

HasValid(i) == \E j \in 1 .. Len(mt.matrix[i]) : mt.matrix[i][j] > mt.min_overlap

\* C24: when resolve is over, every source without a valid target has
\* is_matched false, an empty match list and an empty match_overlap list,
\* and the pair (source, null) with the best overlap -1 has been emitted
\* for it.
C24_UnmatchedSource ==
    CallOver =>
        \A i \in Sources :
            ~HasValid(i) =>
                /\ mt.objs[i] = Fields(FALSE, <<>>, <<>>)
                /\ Len(mt.result) = 2
                /\ Len(mt.result[1]) >= i
                /\ mt.result[1][i] = <<i, 0>>
                /\ mt.result[2][i] = -1

\* The targets of source i that pass the validity mask.
ValidTargets(i) ==
    {j \in 1 .. Len(mt.matrix[i]) : mt.matrix[i][j] > mt.min_overlap}

\* The attributes of source i rank exactly its valid targets, each once,
\* with their overlaps, by non-increasing overlap.
RanksValidTargets(i) ==
    LET o == mt.objs[i] IN
    /\ o.set
    /\ o.is_matched
    /\ Len(o.match) = Cardinality(ValidTargets(i))
    /\ {o.match[k] : k \in 1 .. Len(o.match)} = ValidTargets(i)
    /\ Len(o.match_overlap) = Len(o.match)
    /\ \A k \in 1 .. Len(o.match) : o.match_overlap[k] = mt.matrix[i][o.match[k]]
    /\ \A k \in 1 .. Len(o.match) - 1 :
           o.match_overlap[k] >= o.match_overlap[k + 1]

\* C25: when resolve is over, every source with a valid target ranks
\* exactly its valid targets by non-increasing overlap, is matched, and the
\* pair of the source with the first target of its ranking has been
\* emitted.
C25_MatchedSource ==
    CallOver =>
        \A i \in Sources :
            HasValid(i) =>
                /\ RanksValidTargets(i)
                /\ Len(mt.result) = 2
                /\ Len(mt.result[1]) >= i
                /\ mt.result[1][i] = <<i, mt.objs[i].match[1]>>

\* C26: in the ranking of a source, two valid targets with equal overlap
\* keep their index order: the lower target index comes first.
C26_TieKeepsIndexOrder ==
    CallOver =>
        \A i \in Sources :
            (HasValid(i) /\ mt.objs[i].set /\ mt.objs[i].is_matched) =>
                LET o == mt.objs[i] IN
                \A p, q \in 1 .. Len(o.match) :
                    (p < q /\ o.match_overlap[p] = o.match_overlap[q]) =>
                        o.match[p] < o.match[q]

\* C27: every object that generate_matches has processed as a source,
\* in any call and whether the call returned or raised, has as many
\* overlaps as matches and is flagged as matched exactly when it has a
\* match.
C27_FieldsConsistent ==
    mt.entry = "generate_matches" =>
        \A i \in Sources :
            mt.objs[i].set =>
                /\ Len(mt.objs[i].match) = Len(mt.objs[i].match_overlap)
                /\ mt.objs[i].is_matched = (Len(mt.objs[i].match) > 0)

\* After a second call on the same two sources, the first has lost the
\* matches it had and the second still has one.
C27_Witness ==
    /\ CallOver
    /\ mt.calls = 2
    /\ Len(mt.matrix) = 2
    /\ mt.objs[1] = Fields(FALSE, <<>>, <<>>)
    /\ mt.objs[2].set
    /\ Len(mt.objs[2].match) = 1

\* A request for matching has been made and is over.
RequestOver == mt.entry = "MatchProcessor" /\ mt.pc # "construct"

\* The categories that the request configures.
ConfiguredCategories(cs) == {k \in 1 .. Len(cs) : ~IsNone(cs[k].kwargs)}

\* f'{name[:-1]}_matches_{suffix}': the key of a result, by the pieces that
\* name it (the category, whose last letter is dropped, and the suffix).
ResultKey(name, suffix) == <<name, "_matches_", suffix>>

\* The ranking of object j of `objs` holds the index i.
Ranks(objs, j, i) == \E k \in 1 .. Len(objs[j].match) : objs[j].match[k] = i

\* The overlap that object j of `objs` stores for the index i.
OverlapFor(objs, j, i) ==
    {objs[j].match_overlap[k] :
        k \in {q \in 1 .. Len(objs[j].match) : objs[j].match[q] = i}}

\* C28: a request in direction `both` with a symmetric unweighted metric
\* produces the results of both directions, and they agree: truth object
\* j is in the ranking of reco object i exactly when i is in the ranking of
\* j, with the same overlap.
C28_BothConsistent ==
    RequestOver =>
        \A k \in ConfiguredCategories(mt.categories) :
            LET c  == mt.categories[k]
                kw == c.kwargs[1]
            IN (/\ kw.match_mode = "both"
                /\ kw.overlap_mode \in {"iou", "dice"}
                /\ ~kw.weight_overlap) =>
                   /\ ResultKey(c.name, "r2t") \in DictKeys(mt.result_dict)
                   /\ ResultKey(c.name, "t2r") \in DictKeys(mt.result_dict)
                   /\ \A i \in 1 .. Len(mt.reco), j \in 1 .. Len(mt.truth) :
                          /\ Ranks(mt.reco, i, j) <=> Ranks(mt.truth, j, i)
                          /\ OverlapFor(mt.reco, i, j)
                                 = OverlapFor(mt.truth, j, i)

\* The keyword arguments of the first Matcher that the request builds.
FirstKwargs ==
    mt.categories[CHOOSE k \in ConfiguredCategories(mt.categories) :
                      \A q \in ConfiguredCategories(mt.categories) : k <= q].kwargs[1]

\* The overlap function that a built Matcher holds.
SelectedFn(matchers) == {m[2].fn : m \in {matchers[k] : k \in DOMAIN matchers}}

\* C29: with weight_overlap the construction of a Matcher succeeds for the
\* overlap modes iou and dice and fails by the assertion for count and
\* chamfer; without weighting every valid overlap mode is accepted and the
\* unweighted function of the mode is selected.
C29_WeightedModes ==
    (RequestOver /\ ConfiguredCategories(mt.categories) # {}) =>
        LET kw == FirstKwargs IN
        (/\ kw.match_mode \in {"reco_to_truth", "truth_to_reco", "both"}
         /\ kw.overlap_mode \in OverlapModes) =>
            IF kw.weight_overlap
            THEN IF kw.overlap_mode \in {"iou", "dice"}
                 THEN mt.error = NoError
                 ELSE mt.error.type = "AssertionError"
            ELSE /\ mt.error = NoError
                 /\ SelectedFn(mt.matchers) = {<<"overlap_", kw.overlap_mode>>}

\* C30: a Matcher is built only with a match mode among reco_to_truth,
\* truth_to_reco, both and an overlap mode among count, iou, dice,
\* chamfer; any other mode name is refused by the assertion on the modes.
C30_ModeNames ==
    (RequestOver /\ ConfiguredCategories(mt.categories) # {}) =>
        LET kw == FirstKwargs
            named == /\ kw.match_mode \in
                            {"reco_to_truth", "truth_to_reco", "both"}
                     /\ kw.overlap_mode \in {"count", "iou", "dice", "chamfer"}
        IN /\ mt.matchers # <<>> => named
           /\ ~named => /\ mt.pc = "failed"
                        /\ mt.error.type = "AssertionError"
                        /\ mt.error.line \in {76, 81}

\* Every category that the request configures names a match mode and an
\* overlap mode of the documentation, and weights only iou or dice.
ValidRequest ==
    \A k \in ConfiguredCategories(mt.categories) :
        LET kw == mt.categories[k].kwargs[1] IN
        /\ kw.match_mode \in {"reco_to_truth", "truth_to_reco", "both"}
        /\ kw.overlap_mode \in OverlapModes
        /\ kw.weight_overlap => kw.overlap_mode \in {"iou", "dice"}

\* The point-set distance that an inverted overlap value stands for: the
\* chamfer overlap is the negative of the distance.
DistanceOf(overlap) == 0 - overlap

\* The ranking of object j of `objs` lists its targets closest first.
ClosestFirst(objs, j) ==
    \A k \in 1 .. Len(objs[j].match_overlap) - 1 :
        DistanceOf(objs[j].match_overlap[k])
            <= DistanceOf(objs[j].match_overlap[k + 1])

\* C31: a request with the metric `chamfer` is resolved with the inverted
\* distance: the result of each requested direction is produced, every
\* source object is ranked, and its ranking lists the targets by increasing
\* point-set distance, the closest target being the best match.
C31_ChamferInversion ==
    (RequestOver /\ ValidRequest) =>
        \A k \in ConfiguredCategories(mt.categories) :
            LET c  == mt.categories[k]
                kw == c.kwargs[1]
            IN kw.overlap_mode = "chamfer" =>
                   /\ kw.match_mode # "truth_to_reco" =>
                          /\ ResultKey(c.name, "r2t") \in DictKeys(mt.result_dict)
                          /\ \A i \in 1 .. Len(mt.reco) :
                                 mt.reco[i].set /\ ClosestFirst(mt.reco, i)
                   /\ kw.match_mode # "reco_to_truth" =>
                          /\ ResultKey(c.name, "t2r") \in DictKeys(mt.result_dict)
                          /\ \A j \in 1 .. Len(mt.truth) :
                                 mt.truth[j].set /\ ClosestFirst(mt.truth, j)

\* C34: a call of generate_matches returns two lists with one position per
\* source, in source order: the pair of source i names i and its best
\* target (0 for null when no target is valid), and the best overlap of
\* source i is the overlap with that target (-1 when no target is valid).
C34_ListsAligned ==
    CallOver =>
        /\ mt.pc = "returned"
        /\ Len(mt.result) = 2
        /\ Len(mt.result[1]) = Len(mt.matrix)
        /\ Len(mt.result[2]) = Len(mt.matrix)
        /\ \A i \in Sources :
               IF HasValid(i)
               THEN /\ mt.result[1][i][1] = i
                    /\ mt.result[1][i][2] \in ValidTargets(i)
                    /\ \A j \in ValidTargets(i) :
                           mt.matrix[i][j] <= mt.result[2][i]
                    /\ mt.result[2][i] = mt.matrix[i][mt.result[1][i][2]]
               ELSE /\ mt.result[1][i] = <<i, 0>>
                    /\ mt.result[2][i] = -1

\* Every configured category of the request has the match mode `mode`.
AllInDirection(mode) ==
    /\ ConfiguredCategories(mt.categories) # {}
    /\ \A k \in ConfiguredCategories(mt.categories) :
           mt.categories[k].kwargs[1].match_mode = mode

\* No object of `objs` has had its match attributes written.
NoneWritten(objs) == \A i \in 1 .. Len(objs) : objs[i] = Untouched

\* The result of direction `suffix` is stored for some category.
SomeResult(suffix) ==
    \E k \in 1 .. Len(mt.categories) :
        ResultKey(mt.categories[k].name, suffix) \in DictKeys(mt.result_dict)

\* C38: the match direction bounds what a request writes.  With
\* reco_to_truth the reco objects are resolved, no truth object is written
\* and no truth-to-reco result exists; with truth_to_reco the truth objects
\* are resolved, no reco object is written and no reco-to-truth result
\* exists; with both, the two directions are resolved.
C38_DirectionFrame ==
    (RequestOver /\ ValidRequest) =>
        /\ AllInDirection("reco_to_truth") =>
               /\ NoneWritten(mt.truth) /\ ~SomeResult("t2r")
               /\ SomeResult("r2t")
        /\ AllInDirection("truth_to_reco") =>
               /\ NoneWritten(mt.reco) /\ ~SomeResult("r2t")
               /\ SomeResult("t2r")
        /\ AllInDirection("both") =>
               /\ SomeResult("r2t") /\ SomeResult("t2r")
               /\ \A i \in 1 .. Len(mt.reco) : mt.reco[i].set
               /\ \A j \in 1 .. Len(mt.truth) : mt.truth[j].set

\* The keys that process() is to store for a category in mode `mode`:
\* the pair list and the best-overlap list of each requested direction.
ExpectedKeys(name, mode) ==
    (IF mode # "truth_to_reco"
     THEN {ResultKey(name, "r2t"), ResultKey(name, "r2t") \o <<"_overlap">>}
     ELSE {})
    \cup
    (IF mode # "reco_to_truth"
     THEN {ResultKey(name, "t2r"), ResultKey(name, "t2r") \o <<"_overlap">>}
     ELSE {})

\* C39: after a request, the result dictionary holds, for every configured
\* category, exactly the keys of the directions that its mode selects, and
\* no key of a category that is not configured; a request that configures
\* no category fails at construction.
C39_ResultKeys ==
    (RequestOver /\ ValidRequest) =>
        /\ DictKeys(mt.result_dict) =
               UNION {ExpectedKeys(mt.categories[k].name,
                                   mt.categories[k].kwargs[1].match_mode) :
                          k \in ConfiguredCategories(mt.categories)}
        /\ ConfiguredCategories(mt.categories) = {} => mt.pc = "failed"

\* The indices first .. last, in increasing order.
IndexRange(first, last) ==
    [k \in 1 .. RangeLen(last - first + 1) |-> first + k - 1]

\* The run is a training run resumed from a checkpoint, with the budget
\* not yet used up: start_iteration = k + 1 >= 1 and iterations > k + 1.
Resumed ==
    /\ cfg.train
    /\ cfg.start_iteration >= 1
    /\ cfg.iterations > cfg.start_iteration
    /\ cfg.checkpoint_step # 0

\* C36: a resumed training run with the budget T executes the iterations
\* start_iteration .. T - 1, each once and in increasing order: at no time
\* has it executed more than a prefix of them, and when run() returns it
\* has executed them all.
C36_ResumeCompletesBudget ==
    Resumed =>
        \A r \in procs :
            LET all == IndexRange(cfg.start_iteration, cfg.iterations - 1) IN
            /\ Len(executed[r]) <= Len(all)
            /\ executed[r] = SubSeq(all, 1, Len(executed[r]))
            /\ pc[r] = "done" => executed[r] = all

\* The parameters that belong to a block of the configuration with
\* freeze_weights = true: those held by its sub-module, nested ones included.
OwnedByFlagged ==
    UNION {ParamsOf(path) :
              path \in FlaggedPaths(fz.model_cfg, <<>>) \cap ModulePaths}

\* C37: no step of freeze_weights changes the trainable flag of a
\* parameter that does not belong to a sub-module whose block has
\* freeze_weights = true, whatever the name of its own module contains.
C37_FreezeFrame ==
    [][fz.pc = "loop" =>
          \A n \in DOMAIN fz.requires_grad :
              n \notin OwnedByFlagged =>
                  fz'.requires_grad[n] = fz.requires_grad[n]]_vars

----------------------------------------------------------------------------
(* The iteration loop of one process on batches that may lack a product.   *)

BatchNext ==
    \/ PhaseNext
    \/ \E r \in DOMAIN ph : PhForwardFail(r)

\* A run of one process in which the batch of one iteration lacks a
\* product named by the input mapping or by the loss mapping, or none.
BatchInit ==
    /\ \E N \in 1 .. PhaseIters, c \in 1 .. MaxStep, train \in BOOLEAN,
          kind \in {"none", "input", "loss"} :
        \E opts \in PhaseOptions(1), at \in 0 .. N - 1 :
            /\ kind = "none" => at = 0
            /\ cfg = PhaseConfig(N, 1, c, train,
                                 [missing |-> [kind |-> kind, at |-> at]]
                                     @@ opts)
            /\ ph = [r \in {0} |->
                        [pc |-> "forward", iteration |-> 0, loss_of |-> -1,
                         trace |-> <<>>]]
    /\ sink = [gathered |-> {}, appends |-> {}]
    /\ procs = {}
    /\ pc = <<>>
    /\ epoch = <<>>
    /\ num_epochs = <<>>
    /\ n_left = <<>>
    /\ iteration = <<>>
    /\ executed = <<>>
    /\ epoch_iters = <<>>
    /\ ckpt_writes = {}
    /\ seeds = <<>>
    /\ lw = LwIdle
    /\ su = [pc |-> "idle"]
    /\ mt = [pc |-> "idle"]
    /\ lg = [pc |-> "idle"]
    /\ fz = [pc |-> "idle"]
    /\ sp = [pc |-> "idle"]
    /\ ag = [pc |-> "idle"]

SpecBatch == BatchInit /\ [][BatchNext]_vars

\* A name configured in the input mapping, or in the loss mapping of a run
\* with a loss, is absent from the batch of iteration i.
Lacking(i) ==
    /\ cfg.missing.at = i
    /\ \/ cfg.missing.kind = "input"
       \/ cfg.missing.kind = "loss" /\ cfg.has_loss

\* C35: in an iteration whose batch lacks a configured product name the
\* process reads the batch and fails by an assertion: it makes no call of
\* the model, the loss, the unwrapper, backward(), save_state(), the
\* writer or the logger for that iteration, and runs no later iteration.
C35_MissingProductFails ==
    \A r \in DOMAIN ph :
        \A i \in 0 .. ph[r].iteration :
            Lacking(i) =>
                /\ ph[r].iteration = i
                /\ ph[r].pc \in {"forward", "failed"}
                /\ \A k \in 1 .. Len(ph[r].trace) :
                       ph[r].trace[k].it = i =>
                           ph[r].trace[k].ev \in {"load", "AssertionError"}

\* A training process has completed iteration 0 and failed in iteration 1
\* on a batch that lacks a product of the loss mapping.
C35_Witness ==
    /\ cfg.train
    /\ cfg.missing = [kind |-> "loss", at |-> 1]
    /\ cfg.has_loss
    /\ ph[0].pc = "failed"
    /\ ph[0].iteration = 1
    /\ \E k \in 1 .. Len(ph[0].trace) : ph[0].trace[k] = Ev("log", 0, 0)
    /\ ph[0].trace[Len(ph[0].trace)] = Ev("AssertionError", 1, 672)

----------------------------------------------------------------------------
(* inference_single() of main.py: the driver, the list of weights, and the *)
(* loop over the weights.                                                  *)

\* The k-th file that matches the weight pattern.
PatternFile(k) == <<"weights/snapshot-", k, ".ckpt">>

\* glob.glob(weight_path): the paths that exist, in the arbitrary order in
\* which the directory lists them.
GlobLists(p) ==
    IF p.kind = "pattern"
    THEN {[i \in 1 .. p.matches |-> PatternFile(order[i])] :
             order \in IndexPermutations(p.matches)}
    ELSE IF p.kind \in {"file", "directory"} THEN {<<p.path>>}
    ELSE {<<>>}

\* Variant: the list is used in the order in which glob returned it.
SortedPathsAsListed(l) == l

\* sorted(l), for paths that differ by their index only.
SortedPaths(l) ==
    IF Len(l) <= 1
    THEN l
    ELSE Take(l, CHOOSE perm \in IndexPermutations(Len(l)) :
                     \A k \in 1 .. Len(l) - 1 :
                         l[perm[k]][2] <= l[perm[k + 1]][2])

\* Driver(cfg), line 107, in inference mode: the model is built and its
\* weights are looked for as in lines 422-431 of manager.py: a file is
\* loaded, a path that is no file is passed over if glob expands it to
\* something, and is fatal otherwise.
InfDriver ==
    /\ su.pc = "driver"
    /\ su' = IF ~su.has_model \/ su.weight_path.path = <<>>
             THEN [su EXCEPT !.pc = "weights"]
             ELSE IF IsFile(su.weight_path)
             THEN [su EXCEPT !.pc = "weights",
                             !.loaded = <<su.weight_path.path>>]
             ELSE IF SkipsPath(FALSE, su.weight_path)
             THEN [su EXCEPT !.pc = "weights"]
             ELSE [su EXCEPT !.pc = "failed", !.error = "not_found"]
    /\ UNCHANGED <<runVars, lg, lw, fz, sp, ph, sink, ag, mt>>

\* Lines 110-119: preloaded and the sorted list of weights, [None] (here
\* <<NoneOpt>>) if the list is empty.
InfWeights ==
    /\ su.pc = "weights"
    /\ \E listed \in (IF su.has_model /\ su.weight_path.path # <<>>
                      THEN GlobLists(su.weight_path) ELSE {<<>>}) :
        LET weights == SortedPaths(listed) IN
        su' = [su EXCEPT
                  !.pc = "load",
                  !.preloaded = /\ su.has_model
                                /\ su.weight_path.path # <<>>
                                /\ IsFile(su.weight_path),
                  !.listed = listed,
                  !.weights = IF weights = <<>> THEN <<NoneOpt>>
                              ELSE [k \in 1 .. Len(weights) |->
                                       Some(weights[k])],
                  !.idx = 1]
    /\ UNCHANGED <<runVars, lg, lw, fz, sp, ph, sink, ag, mt>>

\* Lines 123-125: the weights of this pass are loaded and the log is
\* initialized again, unless there is no weight or it is loaded already.
InfLoad ==
    /\ su.pc = "load"
    /\ LET weight == su.weights[su.idx] IN
        su' = IF ~IsNone(weight) /\ ~su.preloaded
              THEN [su EXCEPT
                       !.pc = "run",
                       !.loaded = weight,
                       !.calls = @ \o <<<<"load_weights", weight[1]>>,
                                        <<"initialize_log", weight[1]>>>>]
              ELSE [su EXCEPT !.pc = "run"]
    /\ UNCHANGED <<runVars, lg, lw, fz, sp, ph, sink, ag, mt>>

\* Line 127: driver.run(), then the next weight.
InfRun ==
    /\ su.pc = "run"
    /\ su' = [su EXCEPT
                 !.calls = Append(@, <<"run", su.loaded>>),
                 !.idx = @ + 1,
                 !.pc = IF su.idx < Len(su.weights) THEN "load" ELSE "done"]
    /\ UNCHANGED <<runVars, lg, lw, fz, sp, ph, sink, ag, mt>>

InferNext ==
    \/ InfDriver
    \/ InfWeights
    \/ InfLoad
    \/ InfRun

\* The entry of inference_single: a configuration with or without a model,
\* whose weight path is any of the paths tried for trainval.model_path.
InferInit ==
    /\ \E has_model \in BOOLEAN, p \in TopPaths :
        /\ ~has_model => p = NoPath
        /\ su = [pc |-> "driver", entry |-> "inference_single",
                 has_model |-> has_model, weight_path |-> p,
                 preloaded |-> FALSE, listed |-> <<>>, weights |-> <<>>,
                 idx |-> 0, loaded |-> NoneOpt, calls |-> <<>>,
                 error |-> "none"]
    /\ RunIdle
    /\ lw = LwIdle
    /\ fz = [pc |-> "idle"]
    /\ sp = [pc |-> "idle"]
    /\ ph = <<>>
    /\ sink = [pc |-> "idle"]
    /\ ag = [pc |-> "idle"]
    /\ mt = [pc |-> "idle"]
    /\ lg = [pc |-> "idle"]

SpecInfer == InferInit /\ [][InferNext]_vars

\* The calls of one pass of the loop over the file `f` of a pattern: the
\* file is loaded, the log is initialized again, the inference loop is run.
PassOver(f) ==
    <<<<"load_weights", f>>, <<"initialize_log", f>>, <<"run", Some(f)>>>>

\* The calls for the first n files of the pattern, in sorted path order.
RECURSIVE PassesOver(_)
PassesOver(n) ==
    IF n = 0 THEN <<>> ELSE PassesOver(n - 1) \o PassOver(PatternFile(n))

\* inference_single is over: it returned, or the driver could not be built.
InferOver == su.pc \in {"done", "failed"}

\* The weight path is an existing file, a pattern that files match, or
\* there is none: the calls are those that the claim lists.
CallsAsListed ==
    /\ (su.has_model /\ IsFile(su.weight_path)) =>
           /\ su.pc = "done"
           /\ su.calls = <<<<"run", <<su.weight_path.path>>>>>>
    /\ (/\ su.has_model
        /\ su.weight_path.kind = "pattern"
        /\ GlobCount(su.weight_path) >= 1) =>
           /\ su.pc = "done"
           /\ su.calls = PassesOver(GlobCount(su.weight_path))
    /\ (~su.has_model \/ su.weight_path.path = <<>>) =>
           /\ su.pc = "done"
           /\ su.calls = <<<<"run", NoneOpt>>>>

\* The configured path matches nothing: no file, no directory, and no
\* file that the pattern expands to.
NothingMatches ==
    /\ su.has_model
    /\ su.weight_path.path # <<>>
    /\ ~IsFile(su.weight_path)
    /\ GlobCount(su.weight_path) = 0

----------------------------------------------------------------------------
(* write() and log() on every process of a run, collective by collective,  *)
(* with the lines that the processes print on their common stdout.         *)

\* The processes and the iterations of the runs followed print by print.
LogWorld == 2
LogIters == 2

\* The report cadences and the numbers of keys that the writer stores.
ReportSteps == {1, 2}

KeyCounts == {0, 1, 2}

\* report_step = ((iteration + 1) % self.report_step) == 0
ReportStep(c, it) == PyMod(it + 1, c.report_step) = 0

\* A collective call: gather_object for key number k of iteration `it`, or
\* barrier number k of log() at iteration `it`.
Collective(op, it, k) == [op |-> op, it |-> it, k |-> k]

\* A line on stdout.
Line(rank, it, line) == [rank |-> rank, it |-> it, line |-> line]

\* Process q has entered the collective call.
Entered(l, q, call) ==
    \E i \in 1 .. Len(l.rk[q].calls) : l.rk[q].calls[i] = call

\* Variant: a barrier lets a process through as soon as it arrives.
BarrierPassedAtOnce(l, call) == TRUE

\* torch.distributed.barrier(): a process leaves the barrier when every
\* process of the group has entered it.
BarrierPassed(l, call) == \A q \in DOMAIN l.rk : Entered(l, q, call)

\* Variant: only the main process takes part in the gathers.
GatherKeysMainOnly(c, r) ==
    IF c.distributed /\ c.writer /\ MainProcess(r) THEN c.nkeys ELSE 0

\* Lines 806-822: the keys that process r gathers in write(), one call of
\* gather_object each: the stored keys, on every process of a distributed
\* run with a writer.
GatherKeys(c, r) == IF c.distributed /\ c.writer THEN c.nkeys ELSE 0

\* The position of process r after the end of an iteration.
NextIteration(l, r) ==
    [l EXCEPT !.rk[r].iteration = @ + 1,
              !.rk[r].key = 0,
              !.rk[r].pc = IF l.rk[r].iteration + 1 < l.cfg.iterations
                           THEN "train_step" ELSE "done"]

\* Lines 548-558: train_step and save_state, which print nothing and make
\* no collective call of their own.
LgTrainStep(r) ==
    /\ lg.rk[r].pc = "train_step"
    /\ lg' = [lg EXCEPT !.rk[r].pc = "write"]
    /\ UNCHANGED <<runVars, lw, fz, sp, ph, sink, ag, su, mt>>

\* Lines 809-811, 825-827: the process enters gather_object for its next
\* key.
LgGather(r) ==
    /\ lg.rk[r].pc = "write"
    /\ lg.rk[r].key < GatherKeys(lg.cfg, r)
    /\ lg' = [lg EXCEPT
                 !.rk[r].pc = "gather",
                 !.rk[r].calls =
                     Append(@, Collective("gather", lg.rk[r].iteration,
                                          lg.rk[r].key + 1))]
    /\ UNCHANGED <<runVars, lw, fz, sp, ph, sink, ag, su, mt>>

\* gather_object returns: on the destination, rank 0, when the object of
\* every process has come in; on the others, once the object is sent.
LgGathered(r) ==
    /\ lg.rk[r].pc = "gather"
    /\ MainProcess(r) =>
           \A q \in DOMAIN lg.rk :
               Entered(lg, q, Collective("gather", lg.rk[r].iteration,
                                         lg.rk[r].key + 1))
    /\ lg' = [lg EXCEPT !.rk[r].pc = "write", !.rk[r].key = @ + 1]
    /\ UNCHANGED <<runVars, lw, fz, sp, ph, sink, ag, su, mt>>

\* Lines 561-564, 802-803, 837: no key is left to gather; the writer, if
\* there is one, appends.
LgAppend(r) ==
    /\ lg.rk[r].pc = "write"
    /\ lg.rk[r].key >= GatherKeys(lg.cfg, r)
    /\ lg' = [lg EXCEPT !.rk[r].pc = "log"]
    /\ UNCHANGED <<runVars, lw, fz, sp, ph, sink, ag, su, mt>>

\* Lines 887-909: the record; at a report step the header, printed by the
\* main process, and the first barrier of a distributed run.
LgRecord(r) ==
    /\ lg.rk[r].pc = "log"
    /\ LET it == lg.rk[r].iteration IN
        lg' = IF ~ReportStep(lg.cfg, it)
              THEN NextIteration(lg, r)
              ELSE [lg EXCEPT
                       !.stdout = IF MainProcess(r)
                                  THEN Append(@, Line(r, it, "header"))
                                  ELSE @,
                       !.rk[r].pc = IF lg.cfg.distributed THEN "barrier1"
                                    ELSE "progress",
                       !.rk[r].calls =
                           IF lg.cfg.distributed
                           THEN Append(@, Collective("barrier", it, 1))
                           ELSE @]
    /\ UNCHANGED <<runVars, lw, fz, sp, ph, sink, ag, su, mt>>

\* Line 909: the first barrier lets the process through.
LgBarrier1(r) ==
    /\ lg.rk[r].pc = "barrier1"
    /\ BarrierPassed(lg, Collective("barrier", lg.rk[r].iteration, 1))
    /\ lg' = [lg EXCEPT !.rk[r].pc = "progress"]
    /\ UNCHANGED <<runVars, lw, fz, sp, ph, sink, ag, su, mt>>

\* Lines 911-937: the line of the process, then the second barrier of a
\* distributed run.
LgProgress(r) ==
    /\ lg.rk[r].pc = "progress"
    /\ LET it == lg.rk[r].iteration IN
        lg' = [lg EXCEPT
                  !.stdout = Append(@, Line(r, it, "progress")),
                  !.rk[r].pc = IF lg.cfg.distributed THEN "barrier2"
                               ELSE "blank",
                  !.rk[r].calls =
                      IF lg.cfg.distributed
                      THEN Append(@, Collective("barrier", it, 2))
                      ELSE @]
    /\ UNCHANGED <<runVars, lw, fz, sp, ph, sink, ag, su, mt>>

\* Line 937: the second barrier lets the process through.
LgBarrier2(r) ==
    /\ lg.rk[r].pc = "barrier2"
    /\ BarrierPassed(lg, Collective("barrier", lg.rk[r].iteration, 2))
    /\ lg' = [lg EXCEPT !.rk[r].pc = "blank"]
    /\ UNCHANGED <<runVars, lw, fz, sp, ph, sink, ag, su, mt>>

\* Lines 938-939 and 573: the empty line, printed by the main process;
\* the iteration counter is incremented.
LgBlank(r) ==
    /\ lg.rk[r].pc = "blank"
    /\ LET printed == [lg EXCEPT
                          !.stdout =
                              IF MainProcess(r)
                              THEN Append(@, Line(r, lg.rk[r].iteration,
                                                  "blank"))
                              ELSE @]
       IN lg' = NextIteration(printed, r)
    /\ UNCHANGED <<runVars, lw, fz, sp, ph, sink, ag, su, mt>>

\* A step of process r.
LgRank(r) ==
    /\ r \in DOMAIN lg.rk
    /\ \/ LgTrainStep(r)
       \/ LgGather(r)
       \/ LgGathered(r)
       \/ LgAppend(r)
       \/ LgRecord(r)
       \/ LgBarrier1(r)
       \/ LgProgress(r)
       \/ LgBarrier2(r)
       \/ LgBlank(r)

LogNext ==
    \/ \E r \in DOMAIN lg.rk : LgTrainStep(r)
    \/ \E r \in DOMAIN lg.rk : LgGather(r)
    \/ \E r \in DOMAIN lg.rk : LgGathered(r)
    \/ \E r \in DOMAIN lg.rk : LgAppend(r)
    \/ \E r \in DOMAIN lg.rk : LgRecord(r)
    \/ \E r \in DOMAIN lg.rk : LgBarrier1(r)
    \/ \E r \in DOMAIN lg.rk : LgProgress(r)
    \/ \E r \in DOMAIN lg.rk : LgBarrier2(r)
    \/ \E r \in DOMAIN lg.rk : LgBlank(r)

\* All the processes of a run of one epoch at the top of the loop, with the
\* same configuration; process_main forces `distributed` for more than one
\* process.
LogInit ==
    /\ \E T \in 1 .. LogIters, W \in 1 .. LogWorld, rs \in ReportSteps,
          distributed \in BOOLEAN, writer \in BOOLEAN, nkeys \in KeyCounts :
        /\ W > 1 => distributed
        /\ ~writer => nkeys = 0
        /\ lg = [cfg    |-> [iterations |-> T, world_size |-> W,
                             report_step |-> rs, distributed |-> distributed,
                             writer |-> writer, nkeys |-> nkeys],
                 rk     |-> [r \in 0 .. W - 1 |->
                                [pc |-> "train_step", iteration |-> 0,
                                 key |-> 0, calls |-> <<>>]],
                 stdout |-> <<>>]
    /\ RunIdle
    /\ lw = LwIdle
    /\ fz = [pc |-> "idle"]
    /\ sp = [pc |-> "idle"]
    /\ ph = <<>>
    /\ sink = [pc |-> "idle"]
    /\ ag = [pc |-> "idle"]
    /\ su = [pc |-> "idle"]
    /\ mt = [pc |-> "idle"]

SpecLog == LogInit /\ [][LogNext]_vars

\* Every process is an operating-system process of its own: it takes its
\* next step whenever that step stays possible.
SpecLogFair ==
    /\ LogInit
    /\ [][LogNext]_vars
    /\ \A r \in 0 .. LogWorld - 1 : WF_vars(LgRank(r))

\* The positions of stdout that hold the line `line` of rank r for
\* iteration i.
Printed(r, i, line) ==
    {k \in 1 .. Len(lg.stdout) : lg.stdout[k] = Line(r, i, line)}

\* Rank r is past log() of iteration i.
PastLog(r, i) == lg.rk[r].iteration > i

\* C32: at every report iteration i of a distributed run the header and
\* the closing blank line are printed by rank 0 only and at most once;
\* every rank prints its progress line at most once, and exactly once when
\* it is past the iteration; the header comes before every progress line
\* of i, the blank line after the progress lines of all ranks, and no
\* progress line of a later iteration comes before the blank line of i.
C32_ReportBlock ==
    (lg.cfg.distributed) =>
        /\ \A k \in 1 .. Len(lg.stdout) :
               /\ lg.stdout[k].line \in {"header", "blank"} =>
                      lg.stdout[k].rank = 0
               /\ ReportStep(lg.cfg, lg.stdout[k].it)
               /\ \A j \in 1 .. Len(lg.stdout) :
                      lg.stdout[j] = lg.stdout[k] => j = k
        /\ \A i \in 0 .. lg.cfg.iterations - 1 :
               ReportStep(lg.cfg, i) =>
                   /\ \A r \in DOMAIN lg.rk :
                          /\ PastLog(r, i) =>
                                 Cardinality(Printed(r, i, "progress")) = 1
                          /\ \A k \in Printed(r, i, "progress") :
                                 \E h \in Printed(0, i, "header") : h < k
                   /\ PastLog(0, i) =>
                          /\ Cardinality(Printed(0, i, "header")) = 1
                          /\ Cardinality(Printed(0, i, "blank")) = 1
                   /\ \A b \in Printed(0, i, "blank") :
                          \A r \in DOMAIN lg.rk :
                              \E k \in Printed(r, i, "progress") : k < b
                   /\ \A k \in 1 .. Len(lg.stdout) :
                          (/\ lg.stdout[k].line = "progress"
                           /\ lg.stdout[k].it > i) =>
                              \E b \in Printed(0, i, "blank") : b < k

\* Two ranks have reported the iterations 0 and 1; in iteration 0 the line
\* of rank 1 came before the line of rank 0, in iteration 1 after it.
C32_Witness ==
    /\ lg.cfg.distributed
    /\ lg.cfg.world_size = 2
    /\ lg.cfg.report_step = 1
    /\ Len(lg.stdout) = 8
    /\ lg.stdout[2] = Line(1, 0, "progress")
    /\ lg.stdout[3] = Line(0, 0, "progress")
    /\ lg.stdout[6] = Line(0, 1, "progress")
    /\ lg.stdout[7] = Line(1, 1, "progress")
    /\ lg.stdout[8] = Line(0, 1, "blank")

\* The sequences of collective calls of any two ranks agree as far as both
\* have got.
SameCollectives ==
    \A r, q \in DOMAIN lg.rk :
        LET n == IF Len(lg.rk[r].calls) < Len(lg.rk[q].calls)
                 THEN Len(lg.rk[r].calls) ELSE Len(lg.rk[q].calls)
        IN SubSeq(lg.rk[r].calls, 1, n) = SubSeq(lg.rk[q].calls, 1, n)

\* Every rank has left run() with the counter at the budget, and all have
\* made the same collective calls.
AllTerminated ==
    \A r \in DOMAIN lg.rk :
        /\ lg.rk[r].pc = "done"
        /\ lg.rk[r].iteration = lg.cfg.iterations
        /\ lg.rk[r].calls = lg.rk[0].calls

\* C33: in a distributed run whose ranks have the same configuration and
\* do not fail, the ranks make the same collective calls (the gathers of
\* write(), the barriers of log()) in the same order at the same
\* iterations, and eventually every rank has terminated with the same
\* iteration counter, having entered every collective that any rank
\* entered.
C33_LockStep ==
    /\ [](lg.cfg.distributed => SameCollectives)
    /\ <>(lg.cfg.distributed => AllTerminated)

\* Two ranks have terminated after two iterations in which each gathered a
\* key and passed the two barriers of a report.
C33_Witness ==
    /\ lg.cfg.distributed
    /\ lg.cfg.world_size = 2
    /\ lg.cfg.iterations = 2
    /\ lg.cfg.report_step = 1
    /\ GatherKeys(lg.cfg, 1) = 1
    /\ AllTerminated
    /\ lg.rk[1].calls =
           <<Collective("gather", 0, 1), Collective("barrier", 0, 1),
             Collective("barrier", 0, 2), Collective("gather", 1, 1),
             Collective("barrier", 1, 1), Collective("barrier", 1, 2)>>

====
